---- MODULE Spec2Model ----
(***************************************************************************)
(* Reservation booking / mutation workflow of PROGIII-API-SU.              *)
(*                                                                         *)
(* The relational store is modelled by its committed tables.  Money is     *)
(* kept in integer units.  Reserva.create and Reserva.update call          *)
(* `transaction(callback)`; the only callback-style helper that            *)
(* src/config/database.js defines is executeTransaction (the callbacks use *)
(* the raw connection exactly as that helper hands it over), so the        *)
(* transaction boundary is modelled by ExecuteTransaction.                 *)
(*                                                                         *)
(* Reads issued through `query` go to the pool and see committed data;     *)
(* writes issued through `connection.execute` stay in the transaction's    *)
(* private view until Commit.                                              *)
(***************************************************************************)
EXTENDS Integers, Sequences, FiniteSets, TLC

\* ---------------------------------------------------------------- bounds
MaxReservas == 2

\* ------------------------------------------------------- catalogue domains
Salones == {1, 2, 3}
Turnos == {1, 2}
Fechas == {1, 2}
PreciosSalon == {10, 20}
PreciosServicio == {1, 2}
Textos == {0, 1}

\* roles of src/middlewares/auth.js
ADMINISTRADOR == 1
EMPLEADO == 2
CLIENTE == 3

VARIABLES
  reservas,     \* table reservas: reserva_id -> row
  rs,           \* table reservas_servicios: sequence of rows, insertion order
  nextId,       \* AUTO_INCREMENT counter of reservas
  salones,      \* table salones: salon_id -> [importe, activo]
  servicios,    \* table servicios: servicio_id -> [importe, activo]
  turnos,       \* table turnos: turno_id -> [activo]
  usuarios,     \* table usuarios: usuario_id -> [activo]
  last,         \* the last request served and its HTTP outcome
  procs,        \* requests in flight (concurrent specification)
  hoy           \* the server's current day, on the scale of Fechas

vars == <<reservas, rs, nextId, salones, servicios, turnos, usuarios, last, procs, hoy>>
catalogo == <<salones, servicios, turnos, usuarios>>

\* ------------------------------------------------------------ SQL helpers
\* SELECT ... FROM <tabla> WHERE id = ?, the `AND activo = 1` left out
FindActiveById_SinActivo(tabla, id) == id \in DOMAIN tabla

\* SELECT ... FROM <tabla> WHERE id = ? AND activo = 1
FindActiveById(tabla, id) ==
  id \in DOMAIN tabla /\ tabla[id].activo

\* findActiveById with its catch block returning null instead of throwing
Buscar_ErrorComoNull(tabla, id, fallo) ==
  IF ~fallo /\ FindActiveById(tabla, id) THEN "fila" ELSE "null"

\* Salon / Usuario / Turno / Servicio.findActiveById as the callers see it:
\* the row, null when no active row has the id, and `throw new Error('Error
\* al buscar ... activo')` from the catch block when the query fails (fallo)
Buscar(tabla, id, fallo) ==
  IF fallo THEN "error"
  ELSE IF FindActiveById(tabla, id) THEN "fila" ELSE "null"

\* rows of reservas_servicios of one reservation, in table order
JoinRows(tbl, rid) == SelectSeq(tbl, LAMBDA r : r.reserva_id = rid)

RECURSIVE SumImporte(_)
SumImporte(s) == IF s = <<>> THEN 0 ELSE s[1].importe + SumImporte(Tail(s))

\* SELECT COALESCE(SUM(importe), 0) FROM reservas_servicios WHERE reserva_id = ?
TotalServicios(tbl, rid) == SumImporte(JoinRows(tbl, rid))

\* Reserva.update without the DELETE that clears the old join rows
DeleteJoinRows_Nada(tbl, rid) == tbl

\* DELETE FROM reservas_servicios WHERE reserva_id = ?
DeleteJoinRows(tbl, rid) == SelectSeq(tbl, LAMBDA r : r.reserva_id # rid)

\* Reserva.checkAvailability with the `activo = 1` condition left out of the
\* WHERE clause
CheckAvailability_SinActivo(tbl, salonId, fecha, turnoId, excludeReservaId) ==
  Cardinality({ i \in DOMAIN tbl :
                  /\ tbl[i].salon_id = salonId
                  /\ tbl[i].fecha_reserva = fecha
                  /\ tbl[i].turno_id = turnoId
                  /\ (excludeReservaId # 0 => i # excludeReservaId) }) = 0

\* Reserva.checkAvailability: COUNT(*) of active rows on the slot, the
\* excluded id left out when it is truthy (0 stands for null).
CheckAvailability(tbl, salonId, fecha, turnoId, excludeReservaId) ==
  Cardinality({ i \in DOMAIN tbl :
                  /\ tbl[i].salon_id = salonId
                  /\ tbl[i].fecha_reserva = fecha
                  /\ tbl[i].turno_id = turnoId
                  /\ tbl[i].activo
                  /\ (excludeReservaId # 0 => i # excludeReservaId) }) = 0

\* Reserva.findById(id) with its relations, read through the pool from the
\* committed tables db: no row gives null (the empty sequence), a row gives
\* the record with its service rows (Reserva.getServicios).
FindById(db, id) ==
  IF id \in DOMAIN db.reservas
    THEN <<[fila |-> db.reservas[id], servicios |-> JoinRows(db.rs, id)]>>
    ELSE << >>

\* ------------------------------------------------------------ transactions
\* A callback outcome: ok, the error raised (if any), and the tables as the
\* transaction's connection sees them after the statements that ran.
Outcome(ok, err, res, join, wrote) ==
  [ok |-> ok, err |-> err, reservas |-> res, rs |-> join, wrote |-> wrote]

\* connection.commit(): the transaction's view becomes the committed tables
Commit(out) == [reservas |-> out.reservas, rs |-> out.rs]

\* connection.rollback(): the committed tables stay as they were
Rollback(db) == [reservas |-> db.reservas, rs |-> db.rs]

\* executeTransaction without its catch branch: what the callback wrote stays
ExecuteTransaction_NoRollback(db, out) == Commit(out)

\* executeTransaction: commit when the callback returned, rollback when it threw
ExecuteTransaction(db, out) ==
  IF out.ok THEN Commit(out) ELSE Rollback(db)

\* `El servicio con ID ${servicio_id} no existe o no está activo`, for the
\* service ids a request can name (4 is in no table)
ErrServicio ==
  (1 :> "servicio 1") @@ (2 :> "servicio 2") @@ (3 :> "servicio 3") @@ (4 :> "servicio 4")

\* error -> HTTP status, as the controllers' catch blocks and errorHandler do.
\* "storage" is an error without status and without a code that errorHandler
\* maps (the models' `new Error('Error al ...')`, a driver error of another
\* code): the catch-all 500.  "ECONNREFUSED" is a driver error of that code: 503.
StatusOf(err) ==
  CASE err \in {"no_disponible", "salon", "usuario", "turno", "restaurar", "estado",
                "usuario_requerido", "requeridos", "validacion",
                "usuario_reservas_activas", "servicio_en_uso",
                "propio_usuario"} -> 400
    [] err \in {ErrServicio[i] : i \in DOMAIN ErrServicio} -> 400
    [] err \in {"permiso", "rol"} -> 403
    [] err = "token" -> 401
    [] err = "no_encontrada" -> 404
    [] err = "servicio_existe" -> 409
    [] err = "ECONNREFUSED" -> 503
    [] OTHER -> 500

\* the controllers' role check with every role let through
SoloAdministrador_Todos(tipo) == TRUE

\* ReservasController.update / partialUpdate / delete / restore:
\* `req.user.tipo !== 1` throws 403
SoloAdministrador(tipo) == tipo = ADMINISTRADOR

\* ------------------------------------------------------------------- Init
\* what is remembered of a served request: the route, the reservation it
\* addressed (or was given), the HTTP status, whether a write statement ran,
\* and the request body
\* ... and the record sent back as `data` (empty: null or no data)
RespuestaCon(op, id, status, wrote, req, data) ==
  [op |-> op, id |-> id, status |-> status, wrote |-> wrote, req |-> req,
   data |-> data, error |-> ""]

Respuesta(op, id, status, wrote, req) == RespuestaCon(op, id, status, wrote, req, << >>)

\* an error response: next(createError(error.message, status)), the status
\* chosen from the message, the message sent back
Rechazo(op, id, err, wrote, req) ==
  [Respuesta(op, id, StatusOf(err), wrote, req) EXCEPT !.error = err]

NoRequest == Respuesta("none", 0, 0, FALSE, 0)

Init ==
  /\ reservas = << >>
  /\ rs = << >>
  /\ nextId = 1
  /\ salones = (1 :> [importe |-> 10, activo |-> TRUE]) @@
               (2 :> [importe |-> 20, activo |-> TRUE]) @@
               (3 :> [importe |-> 10, activo |-> FALSE])
  /\ servicios =
       (1 :> [descripcion |-> <<"d", "j", "s">>, importe |-> 1, activo |-> TRUE]) @@
       (2 :> [descripcion |-> <<"b", "a", "r">>, importe |-> 2, activo |-> TRUE]) @@
       (3 :> [descripcion |-> <<"m", "o", "z", "o">>, importe |-> 1, activo |-> FALSE])
  /\ turnos = (1 :> [orden |-> 1, hora_desde |-> 1, hora_hasta |-> 2, activo |-> TRUE]) @@
              (2 :> [orden |-> 2, hora_desde |-> 2, hora_hasta |-> 3, activo |-> FALSE])
  /\ usuarios = (1 :> [activo |-> TRUE, tipo |-> ADMINISTRADOR]) @@
                (2 :> [activo |-> FALSE, tipo |-> CLIENTE]) @@
                (3 :> [activo |-> TRUE, tipo |-> CLIENTE]) @@
                (4 :> [activo |-> TRUE, tipo |-> EMPLEADO])
  /\ last = NoRequest
  /\ procs = << >>
  /\ hoy = 1

\* --------------------------------------------------------- Reserva.create
\* the loop over the supplied services: each one is looked up through the
\* pool (committed servicios) and its row inserted through the connection.
\* falla = "join" makes the INSERT of the last entry fail, falla =
\* "buscar_servicio" the lookup of the first.
RECURSIVE InsertServicios(_, _, _, _, _)
InsertServicios(rid, lista, tbl, suma, falla) ==
  IF lista = << >> THEN [ok |-> TRUE, err |-> "", rs |-> tbl, suma |-> suma]
  ELSE LET sid == Head(lista)
           servicio == Buscar(servicios, sid, falla = "buscar_servicio")
       IN
       IF servicio = "error"
         THEN [ok |-> FALSE, err |-> "storage", rs |-> tbl, suma |-> suma]
       ELSE IF servicio = "null"
         THEN [ok |-> FALSE, err |-> ErrServicio[sid], rs |-> tbl, suma |-> suma]
       ELSE IF falla = "join" /\ Len(lista) = 1
         THEN [ok |-> FALSE, err |-> "storage", rs |-> tbl, suma |-> suma]
       ELSE InsertServicios(rid, Tail(lista),
              Append(tbl, [reserva_id |-> rid, servicio_id |-> sid,
                           importe |-> servicios[sid].importe]),
              suma + servicios[sid].importe, falla)

\* Reserva.create without its availability check
CreateDisponible_Siempre(db, d) == TRUE

\* Reserva.create, first statement of the callback: the availability check,
\* read through the pool
CreateDisponible(db, d) ==
  CheckAvailability(db.reservas, d.salon_id, d.fecha_reserva, d.turno_id, 0)

\* Reserva.create, the callback after the availability check: the reference
\* lookups (through the pool) and the writes (through the connection); rid
\* is the id the INSERT is given.
CreateWrites(db, rid, d, falla) ==
  LET salon == Buscar(salones, d.salon_id, falla = "buscar_salon")
      usuario == Buscar(usuarios, d.usuario_id, falla = "buscar_usuario")
      turno == Buscar(turnos, d.turno_id, falla = "buscar_turno")
  IN
  IF salon = "error" THEN Outcome(FALSE, "storage", db.reservas, db.rs, FALSE)
  ELSE IF salon = "null" THEN Outcome(FALSE, "salon", db.reservas, db.rs, FALSE)
  ELSE IF usuario = "error" THEN Outcome(FALSE, "storage", db.reservas, db.rs, FALSE)
  ELSE IF usuario = "null" THEN Outcome(FALSE, "usuario", db.reservas, db.rs, FALSE)
  ELSE IF turno = "error" THEN Outcome(FALSE, "storage", db.reservas, db.rs, FALSE)
  ELSE IF turno = "null" THEN Outcome(FALSE, "turno", db.reservas, db.rs, FALSE)
  ELSE IF falla = "insert"
    THEN Outcome(FALSE, "storage", db.reservas, db.rs, FALSE)
  ELSE
    LET importe_salon == salones[d.salon_id].importe
        fila == [fecha_reserva |-> d.fecha_reserva, salon_id |-> d.salon_id,
                 usuario_id |-> d.usuario_id, turno_id |-> d.turno_id,
                 foto_cumpleaniero |-> d.foto_cumpleaniero, tematica |-> d.tematica,
                 importe_salon |-> importe_salon, importe_total |-> importe_salon,
                 activo |-> TRUE]
        res1 == db.reservas @@ (rid :> fila)
    IN IF d.servicios = << >>
         THEN IF falla = "hydrate"
                THEN Outcome(FALSE, "storage", res1, db.rs, TRUE)
                ELSE Outcome(TRUE, "", res1, db.rs, TRUE)
       ELSE
         LET loop == InsertServicios(rid, d.servicios, db.rs, 0, falla) IN
         IF ~loop.ok THEN Outcome(FALSE, loop.err, res1, loop.rs, TRUE)
         ELSE IF falla = "total" THEN Outcome(FALSE, "storage", res1, loop.rs, TRUE)
         ELSE
           LET res2 == [res1 EXCEPT ![rid].importe_total = importe_salon + loop.suma] IN
           IF falla = "hydrate"
             THEN Outcome(FALSE, "storage", res2, loop.rs, TRUE)
             ELSE Outcome(TRUE, "", res2, loop.rs, TRUE)

\* Reserva.create, last statement of the callback: `return await
\* Reserva.findById(reserva_id)`, a read through the pool while the
\* transaction is still open, so against the committed tables db.
CreateReturns(db, rid) == FindById(db, rid)

\* The callback Reserva.create hands to the transaction helper, run against
\* the committed tables db.
CreateTx(db, rid, d, falla) ==
  IF falla = "check"
    \* Reserva.checkAvailability's catch: 'Error al verificar disponibilidad'
    THEN Outcome(FALSE, "storage", db.reservas, db.rs, FALSE)
  ELSE IF ~CreateDisponible(db, d)
    THEN Outcome(FALSE, "no_disponible", db.reservas, db.rs, FALSE)
    ELSE CreateWrites(db, rid, d, falla)

\* ReservasController.create + Reserva.create, for a caller of role tipo
\* whose own id is uid.
CreateHandler(uid, tipo, body, falla) ==
  /\ LET usuario_id == IF tipo = CLIENTE THEN uid ELSE body.usuario_id IN
     IF usuario_id = 0
       THEN /\ last' = Rechazo("create", 0, "usuario_requerido", FALSE, body)
            /\ UNCHANGED <<reservas, rs, nextId>>
       ELSE
         LET d == [body EXCEPT !.usuario_id = usuario_id]
             db == [reservas |-> reservas, rs |-> rs]
             \* falla = "conexion": pool.getConnection() is refused, the
             \* callback never runs
             out == IF falla = "conexion"
                      THEN Outcome(FALSE, "ECONNREFUSED", reservas, rs, FALSE)
                      ELSE CreateTx(db, nextId, d, falla)
             fin == ExecuteTransaction(db, out)
         IN /\ reservas' = fin.reservas
            /\ rs' = fin.rs
            /\ nextId' = IF out.wrote THEN nextId + 1 ELSE nextId
            /\ last' = IF out.ok
                          THEN RespuestaCon("create", nextId, 201, TRUE, d,
                                            CreateReturns(db, nextId))
                          ELSE Rechazo("create", IF out.wrote THEN nextId ELSE 0,
                                       out.err, out.wrote, d)

\* POST /reservas served in one step
Create(uid, tipo, body, falla) ==
  /\ CreateHandler(uid, tipo, body, falla)
  /\ UNCHANGED <<catalogo, procs, hoy>>

\* --------------------------------------------------------- Reserva.update
\* `fecha_reserva !== this.fecha_reserva`: the request carries a string, the
\* loaded row carries what the driver returned for the DATE column.  With
\* the driver returning Date objects (fechaObj) the two are never identical.
FechaDistinta(fecha, propia, fechaObj) == fechaObj \/ fecha # propia

\* the slot the update asks for: a field that is supplied, else the loaded row's
NewFecha(self, d) == IF d.has.fecha_reserva THEN d.fecha_reserva ELSE self.fecha_reserva
NewSalon(self, d) == IF d.has.salon_id THEN d.salon_id ELSE self.salon_id
NewTurno(self, d) == IF d.has.turno_id THEN d.turno_id ELSE self.turno_id

\* Reserva.update's availability check with no reservation excluded
UpdateDisponible_SinExcluir(db, id, self, d, fechaObj) ==
  LET cambiaSlot ==
        \/ (d.has.fecha_reserva /\ FechaDistinta(d.fecha_reserva, self.fecha_reserva, fechaObj))
        \/ (d.has.salon_id /\ d.salon_id # self.salon_id)
        \/ (d.has.turno_id /\ d.turno_id # self.turno_id)
  IN cambiaSlot =>
       CheckAvailability(db.reservas, NewSalon(self, d), NewFecha(self, d), NewTurno(self, d), 0)

\* Reserva.update: whether the request names a date, salon or turno that
\* differs from the loaded row, the condition of its availability check
CambiaSlot(self, d, fechaObj) ==
  \/ (d.has.fecha_reserva /\ FechaDistinta(d.fecha_reserva, self.fecha_reserva, fechaObj))
  \/ (d.has.salon_id /\ d.salon_id # self.salon_id)
  \/ (d.has.turno_id /\ d.turno_id # self.turno_id)

\* Reserva.update, first statement of the callback: when date, salon or
\* turno differs from the loaded row, the availability check on the new
\* slot, the reservation itself excluded.  self is the row the controller
\* loaded, d the update data, d.has the fields that are not undefined.
UpdateDisponible(db, id, self, d, fechaObj) ==
  LET cambiaSlot ==
        \/ (d.has.fecha_reserva /\ FechaDistinta(d.fecha_reserva, self.fecha_reserva, fechaObj))
        \/ (d.has.salon_id /\ d.salon_id # self.salon_id)
        \/ (d.has.turno_id /\ d.turno_id # self.turno_id)
  IN cambiaSlot =>
       CheckAvailability(db.reservas, NewSalon(self, d), NewFecha(self, d), NewTurno(self, d), id)

\* Reserva.update, the callback after the availability check.
UpdateWrites(db, id, self, d, falla) ==
  LET newFecha == NewFecha(self, d)
      newSalon == NewSalon(self, d)
      newTurno == NewTurno(self, d)
  IN
  LET salon == IF d.has.salon_id
                 THEN Buscar(salones, d.salon_id, falla = "buscar_salon") ELSE "fila"
      turno == IF d.has.turno_id
                 THEN Buscar(turnos, d.turno_id, falla = "buscar_turno") ELSE "fila"
  IN
  IF salon = "error" THEN Outcome(FALSE, "storage", db.reservas, db.rs, FALSE)
  ELSE IF salon = "null" THEN Outcome(FALSE, "salon", db.reservas, db.rs, FALSE)
  ELSE IF turno = "error" THEN Outcome(FALSE, "storage", db.reservas, db.rs, FALSE)
  ELSE IF turno = "null" THEN Outcome(FALSE, "turno", db.reservas, db.rs, FALSE)
  ELSE
    LET conServicios == d.has.servicios
        borradas == DeleteJoinRows(db.rs, id)
        loop == IF conServicios
                  THEN InsertServicios(id, d.servicios, borradas, 0, falla)
                  ELSE [ok |-> TRUE, err |-> "", rs |-> db.rs, suma |-> 0]
        shouldRecalculate == d.has.salon_id \/ conServicios
        nuevo_importe_total == salones[newSalon].importe + TotalServicios(loop.rs, id)
        fila == [self EXCEPT
                   !.fecha_reserva = newFecha,
                   !.salon_id = newSalon,
                   !.importe_salon = IF d.has.salon_id
                                       THEN salones[d.salon_id].importe ELSE @,
                   !.turno_id = newTurno,
                   !.foto_cumpleaniero = IF d.has.foto_cumpleaniero
                                           THEN d.foto_cumpleaniero ELSE @,
                   !.tematica = IF d.has.tematica THEN d.tematica ELSE @,
                   !.activo = IF d.has.activo THEN d.activo ELSE @,
                   !.importe_total = IF shouldRecalculate THEN nuevo_importe_total ELSE @]
        \* UPDATE reservas SET <updateFields> WHERE reserva_id = ?: the columns
        \* not named keep what the table holds
        escrita == [db.reservas EXCEPT ![id] =
                     [c \in DOMAIN fila |->
                        IF \/ (c \in DOMAIN d.has /\ d.has[c])
                           \/ (c = "importe_salon" /\ d.has.salon_id)
                           \/ (c = "importe_total" /\ shouldRecalculate)
                          THEN fila[c] ELSE db.reservas[id][c]]]
    IN
    IF ~loop.ok THEN Outcome(FALSE, loop.err, db.reservas, loop.rs, conServicios)
    ELSE IF (\A c \in DOMAIN d.has \ {"servicios"} : ~d.has[c]) /\ ~shouldRecalculate
      THEN Outcome(TRUE, "", db.reservas, loop.rs, FALSE)
    ELSE IF falla = "update"
      THEN Outcome(FALSE, "storage", db.reservas, loop.rs, conServicios)
    ELSE IF falla = "hydrate"
      THEN Outcome(FALSE, "storage", escrita, loop.rs, TRUE)
    ELSE Outcome(TRUE, "", escrita, loop.rs, TRUE)

\* Reserva.update, what the callback returns: `this` (the row the controller
\* loaded without relations) when no column is to be written, else `await
\* Reserva.findById(this.reserva_id)`, read through the pool while the
\* transaction is still open.
UpdateReturns(db, id, self, wrote) ==
  IF wrote THEN FindById(db, id) ELSE <<[fila |-> self, servicios |-> << >>]>>

\* The callback Reserva.update hands to the transaction helper.
UpdateTx(db, id, self, d, falla, fechaObj) ==
  IF falla = "check" /\ CambiaSlot(self, d, fechaObj)
    THEN Outcome(FALSE, "storage", db.reservas, db.rs, FALSE)
  ELSE IF ~UpdateDisponible(db, id, self, d, fechaObj)
    THEN Outcome(FALSE, "no_disponible", db.reservas, db.rs, FALSE)
    ELSE UpdateWrites(db, id, self, d, falla)

\* ReservasController.update / partialUpdate + Reserva.update.  op names
\* the route; the PUT route does not forward `activo`.
UpdateHandler(op, tipo, id, body, falla, fechaObj) ==
  /\ IF ~SoloAdministrador(tipo)
       THEN /\ last' = Rechazo(op, id, "permiso", FALSE, body)
            /\ UNCHANGED <<reservas, rs>>
     ELSE IF falla = "buscar_reserva"
       \* Reserva.findById's catch: 'Error al buscar reserva'
       THEN /\ last' = Rechazo(op, id, "storage", FALSE, body)
            /\ UNCHANGED <<reservas, rs>>
     ELSE IF id \notin DOMAIN reservas
       THEN /\ last' = Rechazo(op, id, "no_encontrada", FALSE, body)
            /\ UNCHANGED <<reservas, rs>>
     ELSE
       LET d == IF op = "update" THEN [body EXCEPT !.has.activo = FALSE] ELSE body
           db == [reservas |-> reservas, rs |-> rs]
           out == IF falla = "conexion"
                    THEN Outcome(FALSE, "ECONNREFUSED", reservas, rs, FALSE)
                    ELSE UpdateTx(db, id, reservas[id], d, falla, fechaObj)
           fin == ExecuteTransaction(db, out)
       IN /\ reservas' = fin.reservas
          /\ rs' = fin.rs
          /\ last' = IF out.ok
                        THEN RespuestaCon(op, id, 200, out.wrote, d,
                                          UpdateReturns(db, id, reservas[id], out.wrote))
                        ELSE Rechazo(op, id, out.err, out.wrote, d)
  /\ UNCHANGED <<nextId, catalogo, procs, hoy>>

Update(tipo, id, body, falla, fechaObj) ==
  UpdateHandler("update", tipo, id, body, falla, fechaObj)

PartialUpdate(tipo, id, body, falla, fechaObj) ==
  UpdateHandler("partialUpdate", tipo, id, body, falla, fechaObj)

\* ------------------------------------------- Reserva.softDelete / restore
\* the same UPDATE, the SET clause also clearing importe_total
SetActivo_BorraTotal(tbl, id, valor) ==
  [tbl EXCEPT ![id].activo = valor, ![id].importe_total = 0]

\* UPDATE reservas SET activo = ? WHERE reserva_id = ?  (through the pool)
SetActivo(tbl, id, valor) == [tbl EXCEPT ![id].activo = valor]

\* ReservasController.delete without its `!reserva.activo` rejection
YaEliminada_Nunca(tbl, id) == FALSE

\* ReservasController.delete: `if (!reserva.activo)` on the loaded row
YaEliminada(tbl, id) == ~tbl[id].activo

\* ReservasController.restore without its `reserva.activo` rejection
YaActiva_Nunca(tbl, id) == FALSE

\* ReservasController.restore: `if (reserva.activo)` on the loaded row
YaActiva(tbl, id) == tbl[id].activo

\* ReservasController.delete + Reserva.softDelete
Delete(tipo, id) ==
  /\ IF ~SoloAdministrador(tipo)
       THEN /\ last' = Rechazo("delete", id, "permiso", FALSE, 0)
            /\ UNCHANGED reservas
     ELSE IF id \notin DOMAIN reservas
       THEN /\ last' = Rechazo("delete", id, "no_encontrada", FALSE, 0)
            /\ UNCHANGED reservas
     ELSE IF YaEliminada(reservas, id)
       THEN /\ last' = Rechazo("delete", id, "estado", FALSE, 0)
            /\ UNCHANGED reservas
     ELSE /\ reservas' = SetActivo(reservas, id, FALSE)
          /\ last' = Respuesta("delete", id, 200, TRUE, 0)
  /\ UNCHANGED <<rs, nextId, catalogo, procs, hoy>>

\* Reserva.restore without its availability check
RestoreAllowed_NoCheck(tbl, id) == TRUE

\* Reserva.restore: the availability check on the row's own slot, itself excluded
RestoreAllowed(tbl, id) ==
  CheckAvailability(tbl, tbl[id].salon_id, tbl[id].fecha_reserva, tbl[id].turno_id, id)

\* ReservasController.restore + Reserva.restore, every statement through
\* the pool and outside any transaction.  falla names the statement that
\* fails: the controller's findById ("buscar_reserva"), the availability
\* check ("check"), the UPDATE ("update", or "conexion" when the driver
\* reports ECONNREFUSED), the findById that loads the answer ("hydrate").
RestoreCon(tipo, id, falla) ==
  /\ IF ~SoloAdministrador(tipo)
       THEN /\ last' = Rechazo("restore", id, "permiso", FALSE, 0)
            /\ UNCHANGED reservas
     ELSE IF falla = "buscar_reserva"
       THEN /\ last' = Rechazo("restore", id, "storage", FALSE, 0)
            /\ UNCHANGED reservas
     ELSE IF id \notin DOMAIN reservas
       THEN /\ last' = Rechazo("restore", id, "no_encontrada", FALSE, 0)
            /\ UNCHANGED reservas
     ELSE IF YaActiva(reservas, id)
       THEN /\ last' = Rechazo("restore", id, "estado", FALSE, 0)
            /\ UNCHANGED reservas
     ELSE IF falla = "check"
       THEN /\ last' = Rechazo("restore", id, "storage", FALSE, 0)
            /\ UNCHANGED reservas
     ELSE IF ~RestoreAllowed(reservas, id)
       THEN /\ last' = Rechazo("restore", id, "restaurar", FALSE, 0)
            /\ UNCHANGED reservas
     ELSE IF falla \in {"update", "conexion"}
       THEN /\ last' = Rechazo("restore", id,
                               IF falla = "conexion" THEN "ECONNREFUSED" ELSE "storage",
                               FALSE, 0)
            /\ UNCHANGED reservas
     ELSE /\ reservas' = SetActivo(reservas, id, TRUE)
          /\ last' = IF falla = "hydrate"
                        THEN Rechazo("restore", id, "storage", TRUE, 0)
                        ELSE Respuesta("restore", id, 200, TRUE, 0)
  /\ UNCHANGED <<rs, nextId, catalogo, procs, hoy>>

Restore(tipo, id) == RestoreCon(tipo, id, "ninguna")

\* ------------------------------------------------ advisory availability
\* ReservasController.checkAvailability's call with the `activo = 1`
\* condition left out of the query
ConsultaDisponible_SinActivo(db, q) ==
  CheckAvailability_SinActivo(db.reservas, q.salon_id, q.fecha_reserva, q.turno_id, 0)

\* ReservasController.checkAvailability: Reserva.checkAvailability(salon_id,
\* fecha_reserva, turno_id), no reservation excluded
ConsultaDisponible(db, q) ==
  CheckAvailability(db.reservas, q.salon_id, q.fecha_reserva, q.turno_id, 0)

\* POST /reservas/check-availability: a missing field is refused, else the
\* answer echoes the tuple with `disponible`; nothing is written.
ConsultarDisponibilidad(q) ==
  /\ last' = IF q.salon_id = 0 \/ q.fecha_reserva = 0 \/ q.turno_id = 0
               THEN Rechazo("checkAvailability", 0, "requeridos", FALSE, q)
               ELSE RespuestaCon("checkAvailability", 0, 200, FALSE, q,
                      <<[salon_id |-> q.salon_id, fecha_reserva |-> q.fecha_reserva,
                         turno_id |-> q.turno_id,
                         disponible |-> ConsultaDisponible([reservas |-> reservas, rs |-> rs], q)]>>)
  /\ UNCHANGED <<reservas, rs, nextId, catalogo, procs, hoy>>

\* Salon.checkAvailability(fecha, turnoId) of the salon salon_id:
\* COUNT(*) of active rows on the slot = 0
SalonCheckAvailability(tbl, salon_id, fecha, turnoId) ==
  Cardinality({ i \in DOMAIN tbl :
                  /\ tbl[i].salon_id = salon_id
                  /\ tbl[i].fecha_reserva = fecha
                  /\ tbl[i].turno_id = turnoId
                  /\ tbl[i].activo }) = 0

\* Turno.checkAvailability(fecha, salonId) of the turno turno_id:
\* COUNT(*) of active rows on the slot = 0
TurnoCheckAvailability(tbl, turno_id, fecha, salonId) ==
  Cardinality({ i \in DOMAIN tbl :
                  /\ tbl[i].salon_id = salonId
                  /\ tbl[i].fecha_reserva = fecha
                  /\ tbl[i].turno_id = turno_id
                  /\ tbl[i].activo }) = 0

\* ---------------------------------------------------------------- reads
\* Reserva.findAll: WHERE (includeInactive ? 1=1 : r.activo = 1) and, when
\* usuarioId is truthy (0 stands for undefined), AND r.usuario_id = ?.
\* The rows found, by reserva_id.
FindAll(tbl, includeInactive, usuarioId) ==
  LET ids == { i \in DOMAIN tbl :
                 /\ (includeInactive \/ tbl[i].activo)
                 /\ (usuarioId # 0 => tbl[i].usuario_id = usuarioId) }
  IN [i \in ids |-> tbl[i]]

\* ReservasController.getAll with the query's usuarioId used for every role
UsuarioDelListado_Pedido(uid, tipo, usuarioId) == usuarioId

\* ReservasController.getAll: `finalUsuarioId`, the caller's id for a client
UsuarioDelListado(uid, tipo, usuarioId) ==
  IF tipo = CLIENTE THEN uid ELSE usuarioId

\* ReservasController.getAll for the caller uid of role tipo and the query q
GetAll(uid, tipo, q) ==
  /\ last' = RespuestaCon("getAll", 0, 200, FALSE, q,
                FindAll(reservas, tipo = ADMINISTRADOR /\ q.includeInactive,
                        UsuarioDelListado(uid, tipo, q.usuarioId)))
  /\ UNCHANGED <<reservas, rs, nextId, catalogo, procs, hoy>>

\* ReservasController.getById for the caller uid of role tipo
GetById(uid, tipo, id) ==
  /\ last' =
       IF id \notin DOMAIN reservas
         THEN Rechazo("getById", id, "no_encontrada", FALSE, 0)
       ELSE IF tipo = CLIENTE /\ reservas[id].usuario_id # uid
         THEN Rechazo("getById", id, "permiso", FALSE, 0)
       ELSE IF tipo = EMPLEADO /\ ~reservas[id].activo
         THEN Rechazo("getById", id, "no_encontrada", FALSE, 0)
       ELSE RespuestaCon("getById", id, 200, FALSE, 0,
                         FindById([reservas |-> reservas, rs |-> rs], id))
  /\ UNCHANGED <<reservas, rs, nextId, catalogo, procs, hoy>>

\* ------------------------------------------------------- reservas router
\* verifyToken with the query's `AND activo = 1` left out
VerifyToken_SinActivo(uid) == FindActiveById_SinActivo(usuarios, uid)

\* verifyToken: the token's user must have a row with activo = 1
VerifyToken(uid) == FindActiveById(usuarios, uid)

\* requireRole(rolesPermitidos): rolesPermitidos.includes(req.user.tipo)
RequireRole(rolesPermitidos, tipo) == tipo \in rolesPermitidos

\* The middlewares a request of user uid meets before a route's handler:
\* router.use(verifyToken), router.use(requireRole([ADMINISTRADOR,
\* EMPLEADO])), then the route's own requireRole(rolesRuta).  "" lets the
\* request through, "token" is the 401, "rol" the 403.
Acceso(uid, rolesRuta) ==
  IF ~VerifyToken(uid) THEN "token"
  ELSE IF ~RequireRole({ADMINISTRADOR, EMPLEADO}, usuarios[uid].tipo) THEN "rol"
  ELSE IF ~RequireRole(rolesRuta, usuarios[uid].tipo) THEN "rol"
  ELSE ""

\* next(createError(...)) from a middleware: the handler does not run
Denegado(op, id, err, body) ==
  /\ last' = Rechazo(op, id, err, FALSE, body)
  /\ UNCHANGED <<reservas, rs, nextId, catalogo, procs, hoy>>

\* POST /reservas
RutaCreate(uid, body) ==
  LET a == Acceso(uid, {ADMINISTRADOR, EMPLEADO, CLIENTE}) IN
  IF a # "" THEN Denegado("create", 0, a, body)
  ELSE Create(uid, usuarios[uid].tipo, body, "ninguna")

\* PUT /reservas/:id
RutaUpdate(uid, id, body) ==
  LET a == Acceso(uid, {ADMINISTRADOR, EMPLEADO}) IN
  IF a # "" THEN Denegado("update", id, a, body)
  ELSE Update(usuarios[uid].tipo, id, body, "ninguna", FALSE)

\* PATCH /reservas/:id
RutaPartialUpdate(uid, id, body) ==
  LET a == Acceso(uid, {ADMINISTRADOR, EMPLEADO}) IN
  IF a # "" THEN Denegado("partialUpdate", id, a, body)
  ELSE PartialUpdate(usuarios[uid].tipo, id, body, "ninguna", FALSE)

\* DELETE /reservas/:id
RutaDelete(uid, id) ==
  LET a == Acceso(uid, {ADMINISTRADOR, EMPLEADO}) IN
  IF a # "" THEN Denegado("delete", id, a, 0)
  ELSE Delete(usuarios[uid].tipo, id)

\* PATCH /reservas/:id/restore
RutaRestore(uid, id) ==
  LET a == Acceso(uid, {ADMINISTRADOR}) IN
  IF a # "" THEN Denegado("restore", id, a, 0)
  ELSE Restore(usuarios[uid].tipo, id)

\* ------------------------------------------------------ catalogue updates
\* Salon.update with only `importe` supplied: UPDATE salones SET importe = ?
SalonUpdate(id, importe) ==
  /\ id \in DOMAIN salones
  /\ salones' = [salones EXCEPT ![id].importe = importe]
  /\ last' = Respuesta("salonUpdate", id, 200, TRUE, 0)
  /\ UNCHANGED <<reservas, rs, nextId, servicios, turnos, usuarios, procs, hoy>>

\* Servicio.update with only `importe` supplied: UPDATE servicios SET importe = ?
ServicioUpdate(id, importe) ==
  /\ id \in DOMAIN servicios
  /\ servicios' = [servicios EXCEPT ![id].importe = importe]
  /\ last' = Respuesta("servicioUpdate", id, 200, TRUE, 0)
  /\ UNCHANGED <<reservas, rs, nextId, salones, turnos, usuarios, procs, hoy>>

\* ----------------------------------------------------------- request sets
\* An update body: 0 (SinLista, "absent") stands for a field left undefined.
SinLista == <<0>>
Campos(f, s, t, tem, srv, act) ==
  [has |-> [fecha_reserva |-> f # 0, salon_id |-> s # 0, turno_id |-> t # 0,
            foto_cumpleaniero |-> FALSE, tematica |-> tem # 0,
            servicios |-> srv # SinLista, activo |-> act # "absent"],
   fecha_reserva |-> f, salon_id |-> s, turno_id |-> t, foto_cumpleaniero |-> 0,
   tematica |-> tem, servicios |-> IF srv = SinLista THEN << >> ELSE srv,
   activo |-> (act = "si")]

NuevaReserva(f, s, u, t, srv) ==
  [fecha_reserva |-> f, salon_id |-> s, usuario_id |-> u, turno_id |-> t,
   foto_cumpleaniero |-> 0, tematica |-> 0, servicios |-> srv]

\* ------------------------------------------- Spec: the slot life cycle
\* create / update / partialUpdate / delete / restore over two salons and
\* two dates, without services.
Altas == {NuevaReserva(f, s, 1, 1, << >>) : f \in Fechas, s \in {1, 2}}
CambiosPut == {Campos(f, 0, 0, 0, SinLista, "absent") : f \in {0} \cup Fechas}
CambiosPatch ==
  {Campos(0, s, 0, 0, SinLista, act) : s \in {0, 1, 2}, act \in {"absent", "si", "no"}}
Consultas ==
  {[salon_id |-> s, fecha_reserva |-> f, turno_id |-> t] :
     s \in {0, 1, 2}, f \in Fechas, t \in Turnos}

Next ==
  \/ /\ nextId <= MaxReservas
     /\ \E body \in Altas : Create(1, ADMINISTRADOR, body, "ninguna")
  \/ \E id \in 1..MaxReservas, body \in CambiosPut, fechaObj \in BOOLEAN :
       Update(ADMINISTRADOR, id, body, "ninguna", fechaObj)
  \/ \E id \in 1..MaxReservas, body \in CambiosPatch :
       PartialUpdate(ADMINISTRADOR, id, body, "ninguna", FALSE)
  \/ \E tipo \in {ADMINISTRADOR, EMPLEADO}, id \in 1..MaxReservas : Delete(tipo, id)
  \/ \E tipo \in {ADMINISTRADOR, EMPLEADO}, id \in 1..MaxReservas : Restore(tipo, id)
  \/ \E q \in Consultas : ConsultarDisponibilidad(q)

Spec == Init /\ [][Next]_vars

\* ------------------------------------ SpecImporte: amounts and services
\* create / update / partialUpdate with service lists and salon changes,
\* while the prices of salon 1 and of service 1 change.
ListasServicios == {<< >>, <<1>>, <<1, 2>>}

AltasImporte == {NuevaReserva(1, s, 1, 1, srv) : s \in {1, 2}, srv \in ListasServicios}
CambiosImporte ==
  {Campos(0, s, 0, 0, srv, "absent") :
     s \in {0, 1, 2}, srv \in {SinLista, << >>, <<1, 2>>}}

NextImporte ==
  \/ /\ nextId <= MaxReservas
     /\ \E body \in AltasImporte : Create(1, ADMINISTRADOR, body, "ninguna")
  \/ \E id \in 1..MaxReservas, body \in CambiosImporte :
       Update(ADMINISTRADOR, id, body, "ninguna", FALSE)
  \/ \E id \in 1..MaxReservas, body \in CambiosImporte :
       PartialUpdate(ADMINISTRADOR, id, body, "ninguna", FALSE)
  \/ \E p \in PreciosSalon : SalonUpdate(1, p)
  \/ \E p \in PreciosServicio : ServicioUpdate(1, p)

SpecImporte == Init /\ [][NextImporte]_vars

\* ------------------------- SpecBaja: soft delete and restore, with services
\* create (with and without services) / delete / restore, by an
\* administrator and by an employee, on ids in the table and one beyond it.
NextBaja ==
  \/ /\ nextId <= MaxReservas
     /\ \E body \in AltasImporte : Create(1, ADMINISTRADOR, body, "ninguna")
  \/ \E tipo \in {ADMINISTRADOR, EMPLEADO}, id \in 1..(MaxReservas + 1) : Delete(tipo, id)
  \/ \E tipo \in {ADMINISTRADOR, EMPLEADO}, id \in 1..(MaxReservas + 1) : Restore(tipo, id)

SpecBaja == Init /\ [][NextBaja]_vars

\* ----------------------------------- SpecRoles: the callers of the router
\* every route of the reservas router that writes, called by the
\* administrator (1), an inactive user (2), a client (3) and an employee (4)
Llamadores == {1, 2, 3, 4}
AltasRoles == {NuevaReserva(1, s, u, 1, <<1>>) : s \in {1, 2}, u \in {0, 1}}
CambiosRoles == {Campos(2, 0, 0, 0, SinLista, "absent")}
CambiosPatchRoles ==
  {Campos(0, 2, 0, 0, SinLista, "absent"), Campos(0, 0, 0, 0, SinLista, "no")}

NextRoles ==
  \/ /\ nextId <= MaxReservas
     /\ \E uid \in Llamadores, body \in AltasRoles : RutaCreate(uid, body)
  \/ \E uid \in Llamadores, id \in 1..MaxReservas, body \in CambiosRoles :
       RutaUpdate(uid, id, body)
  \/ \E uid \in Llamadores, id \in 1..MaxReservas, body \in CambiosPatchRoles :
       RutaPartialUpdate(uid, id, body)
  \/ \E uid \in Llamadores, id \in 1..MaxReservas : RutaDelete(uid, id)
  \/ \E uid \in Llamadores, id \in 1..MaxReservas : RutaRestore(uid, id)

SpecRoles == Init /\ [][NextRoles]_vars

\* ------------------------------------- SpecLectura: the read handlers
\* getAll and getById applied for every authenticated caller (administrator
\* 1, client 3, employee 4) over tables in which the administrator and the
\* client own reservations, active and soft-deleted.
Lectores == {1, 3, 4}
AltasLectura == {NuevaReserva(f, 1, u, 1, << >>) : f \in Fechas, u \in {1, 3}}
Listados == {[usuarioId |-> u, includeInactive |-> b] : u \in {0, 1, 3}, b \in BOOLEAN}

NextLectura ==
  \/ /\ nextId <= MaxReservas
     /\ \E body \in AltasLectura : Create(1, ADMINISTRADOR, body, "ninguna")
  \/ \E id \in 1..MaxReservas : Delete(ADMINISTRADOR, id)
  \/ \E uid \in Lectores, q \in Listados : GetAll(uid, usuarios[uid].tipo, q)
  \/ \E uid \in Lectores, id \in 1..(MaxReservas + 1) : GetById(uid, usuarios[uid].tipo, id)

SpecLectura == Init /\ [][NextLectura]_vars

\* --------------------------- SpecRepetidos: service lists with repeats
\* create and update with service lists that name a service once or twice
ListasRepetidas == {<<1>>, <<1, 1>>, <<1, 2>>, <<2, 1, 2>>}
AltasRepetidos == {NuevaReserva(f, 1, 1, 1, srv) : f \in Fechas, srv \in ListasRepetidas}
CambiosRepetidos ==
  {Campos(0, 0, 0, 0, srv, "absent") : srv \in {SinLista, << >>} \cup ListasRepetidas}

NextRepetidos ==
  \/ /\ nextId <= MaxReservas
     /\ \E body \in AltasRepetidos : Create(1, ADMINISTRADOR, body, "ninguna")
  \/ \E id \in 1..MaxReservas, body \in CambiosRepetidos :
       Update(ADMINISTRADOR, id, body, "ninguna", FALSE)
  \/ \E id \in 1..MaxReservas, body \in CambiosRepetidos :
       PartialUpdate(ADMINISTRADOR, id, body, "ninguna", FALSE)

SpecRepetidos == Init /\ [][NextRepetidos]_vars

\* ------------------------- SpecCatalogo: deleting what reservations name
\* `SELECT COUNT(*) FROM reservas WHERE <columna> = ? AND activo = 1` > 0
TieneReservasActivas(columna, id) ==
  \E i \in DOMAIN reservas : reservas[i].activo /\ reservas[i][columna] = id

\* Servicio.softDelete's query: reservas_servicios joined with reservas,
\* `rs.servicio_id = ? AND r.activo = 1`, COUNT > 0
ServicioEnReservasActivas(id) ==
  \E k \in 1..Len(rs) :
    /\ rs[k].servicio_id = id
    /\ rs[k].reserva_id \in DOMAIN reservas
    /\ reservas[rs[k].reserva_id].activo

\* a model's softDelete without its count of active reservations
SoftDelete_SinVerificar(op, tabla, enUso, id, err) ==
  [tabla |-> [tabla EXCEPT ![id].activo = FALSE],
   last |-> Respuesta(op, id, 200, TRUE, 0)]

\* Salon / Usuario / Turno / Servicio.softDelete: the refusal err when an
\* active reservation uses the row (enUso), else UPDATE ... SET activo = 0
SoftDelete(op, tabla, enUso, id, err) ==
  IF enUso
    THEN [tabla |-> tabla, last |-> Rechazo(op, id, err, FALSE, 0)]
    ELSE [tabla |-> [tabla EXCEPT ![id].activo = FALSE],
          last |-> Respuesta(op, id, 200, TRUE, 0)]

\* the delete handler of a catalogue table + the model's softDelete: 404
\* without a row, 400 when already inactive, else the model's softDelete
CatalogoSoftDelete(op, tabla, enUso, id, err) ==
  IF id \notin DOMAIN tabla
    THEN [tabla |-> tabla, last |-> Rechazo(op, id, "no_encontrada", FALSE, 0)]
  ELSE IF ~tabla[id].activo
    THEN [tabla |-> tabla, last |-> Rechazo(op, id, "estado", FALSE, 0)]
  ELSE SoftDelete(op, tabla, enUso, id, err)

\* SalonesController.softDelete + Salon.softDelete; the refusal is an Error
\* without status, passed on by asyncHandler: 500
SalonSoftDelete(id) ==
  /\ LET r == CatalogoSoftDelete("salonSoftDelete", salones,
                                 TieneReservasActivas("salon_id", id), id,
                                 "salon_reservas_activas")
     IN salones' = r.tabla /\ last' = r.last
  /\ UNCHANGED <<reservas, rs, nextId, servicios, turnos, usuarios, procs, hoy>>

\* UsuariosController.delete + Usuario.softDelete; the controller's catch
\* answers the refusal with 400
UsuarioSoftDelete(id) ==
  /\ LET r == CatalogoSoftDelete("usuarioSoftDelete", usuarios,
                                 TieneReservasActivas("usuario_id", id), id,
                                 "usuario_reservas_activas")
     IN usuarios' = r.tabla /\ last' = r.last
  /\ UNCHANGED <<reservas, rs, nextId, salones, servicios, turnos, procs, hoy>>

\* ServiciosController.delete + Servicio.softDelete; the controller's catch
\* answers the refusal with 400
ServicioSoftDelete(id) ==
  /\ LET r == CatalogoSoftDelete("servicioSoftDelete", servicios,
                                 ServicioEnReservasActivas(id), id, "servicio_en_uso")
     IN servicios' = r.tabla /\ last' = r.last
  /\ UNCHANGED <<reservas, rs, nextId, salones, turnos, usuarios, procs, hoy>>

\* Turno.softDelete of a loaded, active turno.  The controller that calls
\* it answers the request; no status is kept for it.
TurnoSoftDelete(id) ==
  /\ id \in DOMAIN turnos /\ turnos[id].activo
  /\ LET r == SoftDelete("turnoSoftDelete", turnos, TieneReservasActivas("turno_id", id),
                         id, "turno_reservas_activas")
     IN turnos' = r.tabla /\ last' = [r.last EXCEPT !.status = 0]
  /\ UNCHANGED <<reservas, rs, nextId, salones, servicios, usuarios, procs, hoy>>

\* SalonesController.restore + Salon.restore: no condition on reservations
SalonRestore(id) ==
  /\ IF id \notin DOMAIN salones
       THEN last' = Rechazo("salonRestore", id, "no_encontrada", FALSE, 0)
              /\ UNCHANGED salones
     ELSE IF salones[id].activo
       THEN last' = Rechazo("salonRestore", id, "estado", FALSE, 0) /\ UNCHANGED salones
     ELSE /\ salones' = [salones EXCEPT ![id].activo = TRUE]
          /\ last' = Respuesta("salonRestore", id, 200, TRUE, 0)
  /\ UNCHANGED <<reservas, rs, nextId, servicios, turnos, usuarios, procs, hoy>>

AltasCatalogo == {NuevaReserva(1, s, u, 1, << >>) : s \in {1, 2}, u \in {1, 3}}

NextCatalogo ==
  \/ /\ nextId <= MaxReservas
     /\ \E body \in AltasCatalogo : Create(1, ADMINISTRADOR, body, "ninguna")
  \/ \E id \in 1..MaxReservas : Delete(ADMINISTRADOR, id)
  \/ \E id \in 1..MaxReservas : Restore(ADMINISTRADOR, id)
  \/ \E id \in {1, 2} : SalonSoftDelete(id)
  \/ \E id \in {1, 2} : SalonRestore(id)
  \/ \E id \in {1, 3} : UsuarioSoftDelete(id)

SpecCatalogo == Init /\ [][NextCatalogo]_vars

\* reservations with and without a service, their deletion, and the soft
\* delete of each kind of catalogue row
AltasEnUso == {NuevaReserva(1, 1, 3, 1, <<1>>), NuevaReserva(1, 2, 1, 1, << >>)}

NextEnUso ==
  \/ /\ nextId <= MaxReservas
     /\ \E body \in AltasEnUso : Create(1, ADMINISTRADOR, body, "ninguna")
  \/ \E id \in 1..MaxReservas : Delete(ADMINISTRADOR, id)
  \/ \E id \in {1, 2} : SalonSoftDelete(id)
  \/ \E id \in {1, 3} : UsuarioSoftDelete(id)
  \/ \E id \in {1, 2} : ServicioSoftDelete(id)
  \/ TurnoSoftDelete(1)

SpecEnUso == Init /\ [][NextEnUso]_vars

\* ------------------------- SpecSesion: requests that carry a user's token
\* Each request carries the token issued to a user (jwt.verify gives back
\* decoded.userId); procs holds the token of the request answered last
\* and, as a history of the run, the users soft-deleted so far.
Bajas(p) == IF p = << >> THEN {} ELSE p[1].bajas

\* The users router: router.use(verifyToken), then the route's requireRole.
AccesoUsuarios(uid, rolesRuta) ==
  IF ~VerifyToken(uid) THEN "token"
  ELSE IF ~RequireRole(rolesRuta, usuarios[uid].tipo) THEN "rol"
  ELSE ""

\* POST /reservas with the token of user uid
PeticionCreate(uid, body) ==
  /\ procs' = <<[token |-> uid, bajas |-> Bajas(procs)]>>
  /\ LET a == Acceso(uid, {ADMINISTRADOR, EMPLEADO, CLIENTE}) IN
     IF a # ""
       THEN last' = Rechazo("create", 0, a, FALSE, body) /\ UNCHANGED <<reservas, rs, nextId>>
       ELSE CreateHandler(uid, usuarios[uid].tipo, body, "ninguna")
  /\ UNCHANGED <<catalogo, hoy>>

\* DELETE /usuarios/:id with the token of user uid: UsuariosController.delete
\* refuses the caller's own id, then as the other catalogue deletes
PeticionUsuarioDelete(uid, id) ==
  /\ LET a == AccesoUsuarios(uid, {ADMINISTRADOR})
         r == IF a # ""
                THEN [tabla |-> usuarios,
                      last |-> Rechazo("usuarioSoftDelete", id, a, FALSE, 0)]
              ELSE IF id = uid
                THEN [tabla |-> usuarios,
                      last |-> Rechazo("usuarioSoftDelete", id, "propio_usuario", FALSE, 0)]
              ELSE CatalogoSoftDelete("usuarioSoftDelete", usuarios,
                                      TieneReservasActivas("usuario_id", id), id,
                                      "usuario_reservas_activas")
     IN /\ usuarios' = r.tabla /\ last' = r.last
        /\ procs' = <<[token |-> uid,
                       bajas |-> IF r.last.status = 200 THEN Bajas(procs) \cup {id}
                                 ELSE Bajas(procs)]>>
  /\ UNCHANGED <<reservas, rs, nextId, salones, servicios, turnos, hoy>>

\* PATCH /usuarios/:id/restore with the token of user uid:
\* UsuariosController.restore + Usuario.restore.  existsByEmail finds no
\* other active user of the same nombre_usuario: the users of Init have
\* distinct ones and no user is created.
PeticionUsuarioRestore(uid, id) ==
  /\ procs' = <<[token |-> uid, bajas |-> Bajas(procs)]>>
  /\ LET a == AccesoUsuarios(uid, {ADMINISTRADOR}) IN
     IF a # ""
       THEN last' = Rechazo("usuarioRestore", id, a, FALSE, 0) /\ UNCHANGED usuarios
     ELSE IF id \notin DOMAIN usuarios
       THEN last' = Rechazo("usuarioRestore", id, "no_encontrada", FALSE, 0)
              /\ UNCHANGED usuarios
     ELSE IF usuarios[id].activo
       THEN last' = Rechazo("usuarioRestore", id, "estado", FALSE, 0) /\ UNCHANGED usuarios
     ELSE /\ usuarios' = [usuarios EXCEPT ![id].activo = TRUE]
          /\ last' = Respuesta("usuarioRestore", id, 200, TRUE, 0)
  /\ UNCHANGED <<reservas, rs, nextId, salones, servicios, turnos, hoy>>

\* tokens issued to the administrator, the two clients and the employee
Tokens == {1, 2, 3, 4}
AltasSesion == {NuevaReserva(f, 1, 1, 1, << >>) : f \in Fechas}

NextSesion ==
  \/ /\ nextId <= MaxReservas
     /\ \E uid \in Tokens, body \in AltasSesion : PeticionCreate(uid, body)
  \/ \E uid \in Tokens, id \in {2, 3, 4} : PeticionUsuarioDelete(uid, id)
  \/ \E uid \in Tokens, id \in {2, 3, 4} : PeticionUsuarioRestore(uid, id)

SpecSesion == Init /\ [][NextSesion]_vars

\* ------------------------------------ SpecTurnos: the Turno model's writes
\* Times are whole hours written with two digits ('08:00'), for which the
\* string comparisons of the JavaScript and the TIME comparisons of the
\* SQL agree; 0 stands for a field the caller left undefined.
MaxTurnos == 3

\* Turno.existsByOrden: COUNT of active turnos of that orden, `AND
\* turno_id != ?` when excludeId is truthy
ExistsByOrden(tbl, orden, excludeId) ==
  \E i \in DOMAIN tbl :
    tbl[i].activo /\ tbl[i].orden = orden /\ (excludeId # 0 => i # excludeId)

\* Turno.checkTimeOverlap with only the first of its three clauses
CheckTimeOverlap_SoloInicio(tbl, horaDesde, horaHasta, excludeId) ==
  \E i \in DOMAIN tbl :
    /\ tbl[i].activo
    /\ tbl[i].hora_desde <= horaDesde /\ tbl[i].hora_hasta > horaDesde
    /\ (excludeId # 0 => i # excludeId)

\* Turno.checkTimeOverlap: COUNT of active turnos with
\*   (hora_desde <= ? AND hora_hasta > ?)      [horaDesde, horaDesde]
\*   OR (hora_desde < ? AND hora_hasta >= ?)   [horaHasta, horaHasta]
\*   OR (hora_desde >= ? AND hora_hasta <= ?)  [horaDesde, horaHasta]
\* and `AND turno_id != ?` when excludeId is truthy
CheckTimeOverlap(tbl, horaDesde, horaHasta, excludeId) ==
  \E i \in DOMAIN tbl :
    /\ tbl[i].activo
    /\ \/ tbl[i].hora_desde <= horaDesde /\ tbl[i].hora_hasta > horaDesde
       \/ tbl[i].hora_desde < horaHasta /\ tbl[i].hora_hasta >= horaHasta
       \/ tbl[i].hora_desde >= horaDesde /\ tbl[i].hora_hasta <= horaHasta
    /\ (excludeId # 0 => i # excludeId)

\* what a Turno method leaves behind: the error thrown ("" for none) and
\* whether a write ran.  The controller that turns it into an HTTP answer
\* is not modelled; the status stays 0.
TurnoResultado(op, id, err, wrote, data) ==
  [Respuesta(op, id, 0, wrote, data) EXCEPT !.error = err]

\* Turno.create(data)
TurnoCreate(data) ==
  /\ LET id == Cardinality(DOMAIN turnos) + 1
         err == IF ExistsByOrden(turnos, data.orden, 0) THEN "orden_existe"
                ELSE IF CheckTimeOverlap(turnos, data.hora_desde, data.hora_hasta, 0)
                  THEN "solape"
                ELSE IF data.hora_desde >= data.hora_hasta THEN "hora_inicio"
                ELSE ""
     IN IF err # ""
          THEN turnos' = turnos /\ last' = TurnoResultado("turnoCreate", 0, err, FALSE, data)
          ELSE /\ turnos' = turnos @@ (id :> [orden |-> data.orden,
                                               hora_desde |-> data.hora_desde,
                                               hora_hasta |-> data.hora_hasta,
                                               activo |-> TRUE])
               /\ last' = TurnoResultado("turnoCreate", id, "", TRUE, data)
  /\ UNCHANGED <<reservas, rs, nextId, salones, servicios, usuarios, procs, hoy>>

\* turno.update(data) on the turno loaded by id, active or not.
\* data.activo is "undefined", "true" or "false".
TurnoUpdate(id, data) ==
  /\ id \in DOMAIN turnos
  /\ LET este == turnos[id]
         newHoraDesde == IF data.hora_desde # 0 THEN data.hora_desde ELSE este.hora_desde
         newHoraHasta == IF data.hora_hasta # 0 THEN data.hora_hasta ELSE este.hora_hasta
         err == IF /\ data.orden # 0 /\ data.orden # este.orden
                   /\ ExistsByOrden(turnos, data.orden, id)
                  THEN "orden_existe"
                ELSE IF data.hora_desde = 0 /\ data.hora_hasta = 0 THEN ""
                ELSE IF newHoraDesde >= newHoraHasta THEN "hora_inicio"
                ELSE IF CheckTimeOverlap(turnos, newHoraDesde, newHoraHasta, id) THEN "solape"
                ELSE ""
         sinCampos == /\ data.orden = 0 /\ data.hora_desde = 0 /\ data.hora_hasta = 0
                      /\ data.activo = "undefined"
     IN IF err # ""
          THEN turnos' = turnos /\ last' = TurnoResultado("turnoUpdate", id, err, FALSE, data)
        ELSE IF sinCampos
          THEN turnos' = turnos /\ last' = TurnoResultado("turnoUpdate", id, "", FALSE, data)
        ELSE /\ turnos' = [turnos EXCEPT ![id] =
                             [orden |-> IF data.orden # 0 THEN data.orden ELSE este.orden,
                              hora_desde |-> newHoraDesde,
                              hora_hasta |-> newHoraHasta,
                              activo |-> IF data.activo = "undefined" THEN este.activo
                                         ELSE data.activo = "true"]]
             /\ last' = TurnoResultado("turnoUpdate", id, "", TRUE, data)
  /\ UNCHANGED <<reservas, rs, nextId, salones, servicios, usuarios, procs, hoy>>

\* turno.restore() on the turno loaded by id
TurnoRestore(id) ==
  /\ id \in DOMAIN turnos
  /\ LET este == turnos[id]
         err == IF ExistsByOrden(turnos, este.orden, id) THEN "restaurar_orden"
                ELSE IF CheckTimeOverlap(turnos, este.hora_desde, este.hora_hasta, id)
                  THEN "restaurar_solape"
                ELSE ""
     IN IF err # ""
          THEN turnos' = turnos /\ last' = TurnoResultado("turnoRestore", id, err, FALSE, 0)
          ELSE /\ turnos' = [turnos EXCEPT ![id].activo = TRUE]
               /\ last' = TurnoResultado("turnoRestore", id, "", TRUE, 0)
  /\ UNCHANGED <<reservas, rs, nextId, salones, servicios, usuarios, procs, hoy>>

Horarios == {<<1, 2>>, <<2, 3>>, <<1, 3>>}
AltasTurno ==
  {[orden |-> o, hora_desde |-> h[1], hora_hasta |-> h[2]] : o \in {1, 2}, h \in Horarios}
CambiosTurno ==
  {[orden |-> o, hora_desde |-> 0, hora_hasta |-> 0, activo |-> a] :
     o \in {0, 1, 2}, a \in {"undefined", "true", "false"}}
  \cup {[orden |-> 0, hora_desde |-> h[1], hora_hasta |-> h[2], activo |-> "undefined"] :
          h \in Horarios}

NextTurnos ==
  \/ /\ Cardinality(DOMAIN turnos) < MaxTurnos
     /\ \E data \in AltasTurno : TurnoCreate(data)
  \/ \E id \in 1..MaxTurnos, data \in CambiosTurno : TurnoUpdate(id, data)
  \/ \E id \in 1..MaxTurnos : TurnoSoftDelete(id)
  \/ \E id \in 1..MaxTurnos : TurnoRestore(id)

SpecTurnos == Init /\ [][NextTurnos]_vars

\* ------------------------- SpecSolape: Turno.checkTimeOverlap on its own
\* The function applied to every table of two turnos with hora_desde <
\* hora_hasta, active or not, and every candidate interval, with and
\* without an excluded id.
MaxHora == 4
Intervalos == {h \in (1..MaxHora) \X (1..MaxHora) : h[1] < h[2]}
FilasSolape ==
  {[orden |-> 1, hora_desde |-> h[1], hora_hasta |-> h[2], activo |-> a] :
     h \in Intervalos, a \in BOOLEAN}
TablasSolape == {(1 :> f) @@ (2 :> g) : f \in FilasSolape, g \in FilasSolape}

InitSolape ==
  /\ Init!1 /\ Init!2 /\ Init!3 /\ Init!4 /\ Init!5
  /\ turnos \in TablasSolape
  /\ Init!7 /\ Init!8 /\ Init!9 /\ Init!10

\* Turno.checkTimeOverlap(horaDesde, horaHasta, excludeId); 0 stands for
\* the default excludeId = null
TurnoCheckTimeOverlap(horaDesde, horaHasta, excludeId) ==
  /\ last' = RespuestaCon("checkTimeOverlap", excludeId, 0, FALSE,
                          [hora_desde |-> horaDesde, hora_hasta |-> horaHasta],
                          <<CheckTimeOverlap(turnos, horaDesde, horaHasta, excludeId)>>)
  /\ UNCHANGED <<reservas, rs, nextId, catalogo, procs, hoy>>

NextSolape ==
  \E h \in Intervalos, excludeId \in {0, 1, 2} : TurnoCheckTimeOverlap(h[1], h[2], excludeId)

SpecSolape == InitSolape /\ [][NextSolape]_vars

\* ------------------------------ SpecServicios: the servicios handlers
\* A description is a sequence of characters.
MaxServicios == 4

RECURSIVE TrimIzq(_)
\* the description without its leading spaces
TrimIzq(d) == IF d # << >> /\ Head(d) = " " THEN TrimIzq(Tail(d)) ELSE d

RECURSIVE TrimDer(_)
\* the description without its trailing spaces
TrimDer(d) ==
  IF d # << >> /\ d[Len(d)] = " " THEN TrimDer(SubSeq(d, 1, Len(d) - 1)) ELSE d

\* String.prototype.trim() / SQL TRIM() on the descriptions drawn (their
\* only white space is the space)
Trim(d) == TrimDer(TrimIzq(d))

\* SQL LOWER() on the letters drawn
Lower(d) ==
  [i \in DOMAIN d |-> CASE d[i] = "D" -> "d" [] d[i] = "J" -> "j" [] d[i] = "S" -> "s"
                         [] OTHER -> d[i]]

\* Servicio.existsByDescripcion: COUNT of active services with
\* LOWER(TRIM(descripcion)) = LOWER(TRIM(?)), `AND servicio_id != ?` when
\* excludeId is truthy
ExistsByDescripcion(tbl, descripcion, excludeId) ==
  \E i \in DOMAIN tbl :
    /\ tbl[i].activo
    /\ Lower(Trim(tbl[i].descripcion)) = Lower(Trim(descripcion))
    /\ (excludeId # 0 => i # excludeId)

\* ServiciosController.create + Servicio.create: the duplicate is a 409
ServicioCreate(body) ==
  /\ LET descripcion == Trim(body.descripcion)
         id == Cardinality(DOMAIN servicios) + 1
     IN IF ExistsByDescripcion(servicios, descripcion, 0)
          THEN /\ servicios' = servicios
               /\ last' = Rechazo("servicioCreate", 0, "servicio_existe", FALSE, body)
          ELSE /\ servicios' = servicios @@ (id :> [descripcion |-> Trim(descripcion),
                                                     importe |-> body.importe,
                                                     activo |-> TRUE])
               /\ last' = Respuesta("servicioCreate", id, 201, TRUE, body)
  /\ UNCHANGED <<reservas, rs, nextId, salones, turnos, usuarios, procs, hoy>>

\* ServiciosController.partialUpdate + servicio.update for a body with
\* descripcion and activo (<< >> and "undefined": the field is absent)
ServicioPartialUpdate(id, body) ==
  /\ IF id \notin DOMAIN servicios
       THEN /\ servicios' = servicios
            /\ last' = Rechazo("servicioPartialUpdate", id, "no_encontrada", FALSE, body)
     ELSE
       LET este == servicios[id]
           trimmedDesc == Trim(body.descripcion)
       IN IF /\ body.descripcion # << >> /\ trimmedDesc # este.descripcion
             /\ ExistsByDescripcion(servicios, trimmedDesc, id)
            THEN /\ servicios' = servicios
                 /\ last' = Rechazo("servicioPartialUpdate", id, "servicio_existe",
                                    FALSE, body)
          ELSE IF body.descripcion = << >> /\ body.activo = "undefined"
            THEN /\ servicios' = servicios
                 /\ last' = Respuesta("servicioPartialUpdate", id, 200, FALSE, body)
          ELSE /\ servicios' =
                    [servicios EXCEPT ![id] =
                       [descripcion |-> IF body.descripcion # << >> THEN trimmedDesc
                                        ELSE este.descripcion,
                        importe |-> este.importe,
                        activo |-> IF body.activo = "undefined" THEN este.activo
                                   ELSE body.activo = "true"]]
               /\ last' = Respuesta("servicioPartialUpdate", id, 200, TRUE, body)
  /\ UNCHANGED <<reservas, rs, nextId, salones, turnos, usuarios, procs, hoy>>

\* ServiciosController.restore + servicio.restore: UPDATE ... SET activo = 1
ServicioRestore(id) ==
  /\ IF id \notin DOMAIN servicios
       THEN /\ servicios' = servicios
            /\ last' = Rechazo("servicioRestore", id, "no_encontrada", FALSE, 0)
     ELSE IF servicios[id].activo
       THEN /\ servicios' = servicios
            /\ last' = Rechazo("servicioRestore", id, "estado", FALSE, 0)
     ELSE /\ servicios' = [servicios EXCEPT ![id].activo = TRUE]
          /\ last' = Respuesta("servicioRestore", id, 200, TRUE, 0)
  /\ UNCHANGED <<reservas, rs, nextId, salones, turnos, usuarios, procs, hoy>>

Descripciones == {<<"d", "j", "s">>, <<"D", "J", "S">>, <<" ", "d", "j", "s", " ">>}
AltasServicio == {[descripcion |-> d, importe |-> 1] : d \in Descripciones}
CambiosServicio ==
  {[descripcion |-> d, activo |-> "undefined"] : d \in Descripciones}
  \cup {[descripcion |-> << >>, activo |-> a] : a \in {"undefined", "true", "false"}}

NextServicios ==
  \/ /\ Cardinality(DOMAIN servicios) < MaxServicios
     /\ \E body \in AltasServicio : ServicioCreate(body)
  \/ \E id \in 1..MaxServicios, body \in CambiosServicio : ServicioPartialUpdate(id, body)
  \/ \E id \in 1..MaxServicios : ServicioSoftDelete(id)
  \/ \E id \in 1..MaxServicios : ServicioRestore(id)

SpecServicios == Init /\ [][NextServicios]_vars

\* ------------------ SpecTransaccion: the transaction helpers, step by step
\* One transaction at a time, held in procs: the caller (estilo), the
\* statements still to run, where the caller stands (pc) and the calls made
\* on the pooled connection so far (eventos).  A statement, the commit and
\* the read that follows the commit each succeed or throw.
\*   "executeTransaction"  executeTransaction(callback)
\*   "Reserva.create"      transaction.start / query / commit / rollback,
\*                         one INSERT and one INSERT per service
\*   "Salon.create"        the same helpers around one INSERT
MaxSentencias == 3
Estilos == {"executeTransaction", "Reserva.create", "Salon.create"}

ConHelpers(t) == t.estilo \in {"Reserva.create", "Salon.create"}

\* transaction.start() / executeTransaction's first two lines:
\* pool.getConnection() and connection.beginTransaction()
TxStart(estilo, n) ==
  /\ procs = << >>
  /\ procs' = <<[estilo |-> estilo, pendientes |-> n, pc |-> "sentencias",
                 eventos |-> <<"getConnection", "beginTransaction">>]>>
  /\ UNCHANGED <<reservas, rs, nextId, catalogo, last, hoy>>

\* one statement inside the try: it runs, or it throws into the catch
TxQuery(ok) ==
  /\ procs # << >> /\ procs[1].pc = "sentencias" /\ procs[1].pendientes > 0
  /\ procs' = IF ok
                THEN <<[procs[1] EXCEPT !.pendientes = @ - 1]>>
                ELSE <<[procs[1] EXCEPT !.pc = "catch"]>>
  /\ UNCHANGED <<reservas, rs, nextId, catalogo, last, hoy>>

\* transaction.commit(connection): connection.commit(), then
\* connection.release(); a commit that throws releases nothing
TxCommitHelper(t, ok) ==
  IF ok THEN [t EXCEPT !.eventos = @ \o <<"commit", "release">>, !.pc = "despues"]
        ELSE [t EXCEPT !.pc = "catch"]

\* the commit once every statement has run
TxCommit(ok) ==
  /\ procs # << >> /\ procs[1].pc = "sentencias" /\ procs[1].pendientes = 0
  /\ procs' = IF ConHelpers(procs[1])
                THEN <<TxCommitHelper(procs[1], ok)>>
                \* executeTransaction: await connection.commit(); return result
                ELSE IF ok
                  THEN <<[procs[1] EXCEPT !.eventos = @ \o <<"commit">>, !.pc = "finally"]>>
                  ELSE <<[procs[1] EXCEPT !.pc = "catch"]>>
  /\ UNCHANGED <<reservas, rs, nextId, catalogo, last, hoy>>

\* Reserva.create / Salon.create: `return await this.findById(...)`, after
\* the commit and still inside the try
TxDespues(ok) ==
  /\ procs # << >> /\ procs[1].pc = "despues"
  /\ procs' = <<[procs[1] EXCEPT !.pc = IF ok THEN "fin" ELSE "catch"]>>
  /\ UNCHANGED <<reservas, rs, nextId, catalogo, last, hoy>>

\* the catch block: transaction.rollback(connection) is connection.
\* rollback() then connection.release(); executeTransaction's catch is
\* connection.rollback() and its finally releases
TxCatch ==
  /\ procs # << >> /\ procs[1].pc = "catch"
  /\ procs' = IF ConHelpers(procs[1])
                THEN <<[procs[1] EXCEPT !.eventos = @ \o <<"rollback", "release">>,
                                        !.pc = "fin"]>>
                ELSE <<[procs[1] EXCEPT !.eventos = @ \o <<"rollback">>,
                                        !.pc = "finally"]>>
  /\ UNCHANGED <<reservas, rs, nextId, catalogo, last, hoy>>

\* executeTransaction's finally: connection.release()
TxFinally ==
  /\ procs # << >> /\ procs[1].pc = "finally"
  /\ procs' = <<[procs[1] EXCEPT !.eventos = @ \o <<"release">>, !.pc = "fin"]>>
  /\ UNCHANGED <<reservas, rs, nextId, catalogo, last, hoy>>

\* the caller returns or throws; the next transaction can start
TxFin ==
  /\ procs # << >> /\ procs[1].pc = "fin"
  /\ procs' = << >>
  /\ last' = RespuestaCon("transaccion", 0, 0, FALSE, procs[1].estilo, procs[1].eventos)
  /\ UNCHANGED <<reservas, rs, nextId, catalogo, hoy>>

NextTransaccion ==
  \/ \E estilo \in Estilos, n \in 1..MaxSentencias :
       (estilo = "Salon.create" => n = 1) /\ TxStart(estilo, n)
  \/ \E ok \in BOOLEAN : TxQuery(ok)
  \/ \E ok \in BOOLEAN : TxCommit(ok)
  \/ \E ok \in BOOLEAN : TxDespues(ok)
  \/ TxCatch
  \/ TxFinally
  \/ TxFin

SpecTransaccion == Init /\ [][NextTransaccion]_vars

\* ------------------------------- SpecDecimal: the arithmetic of the total
\* A JavaScript number is an IEEE 754 double: zero, or 53 significant binary
\* digits m (most significant first, m[1] = 1) and the exponent e of the
\* first, the value being the sum of m[i] * 2^(e - i + 1).  Amounts are
\* positive, so no sign is kept.  A decimal amount is [entero, centavos].
Mantisa == 53
Cero == [e |-> 0, m |-> << >>]
Ceros(n) == [i \in 1..n |-> 0]

\* the binary digits of n, most significant first (none for 0)
RECURSIVE IntBits(_)
IntBits(n) == IF n = 0 THEN << >> ELSE Append(IntBits(n \div 2), n % 2)

\* 2^k modulo 100
RECURSIVE Pow2Mod100(_)
Pow2Mod100(k) ==
  IF k = 0 THEN 1
  ELSE IF k % 2 = 0 THEN (Pow2Mod100(k \div 2) * Pow2Mod100(k \div 2)) % 100
  ELSE (2 * Pow2Mod100(k - 1)) % 100

\* the first n binary digits of r/100 after the point, by long division,
\* and the remainder left: the remainder before digit k is r * 2^(k-1) mod 100
FracBits(r, n) ==
  [bits |-> [k \in 1..n |-> (2 * ((r * Pow2Mod100(k - 1)) % 100)) \div 100],
   resto |-> (r * Pow2Mod100(n)) % 100]

\* how many zeros follow the point before the first 1 of r/100 (0 < r < 100)
RECURSIVE CerosIniciales(_)
CerosIniciales(r) == IF 2 * r >= 100 THEN 0 ELSE 1 + CerosIniciales(2 * r)

\* a binary numeral plus one
Inc(b) ==
  LET ceros == {i \in 1..Len(b) : b[i] = 0} IN
  IF ceros = {} THEN <<1>> \o Ceros(Len(b))
  ELSE LET k == CHOOSE i \in ceros : \A j \in ceros : j <= i
       IN [i \in 1..Len(b) |-> IF i < k THEN b[i] ELSE IF i = k THEN 1 ELSE 0]

\* round to nearest, ties to even: s are the digits from the first 1 on,
\* resto whether anything nonzero follows them, e the exponent of s[1]
Redondear(s, resto, e) ==
  LET t == s \o Ceros(IF Len(s) > Mantisa THEN 0 ELSE Mantisa + 1 - Len(s))
      m == SubSeq(t, 1, Mantisa)
      guarda == t[Mantisa + 1]
      pegajoso == resto \/ \E i \in (Mantisa + 2)..Len(t) : t[i] = 1
      sube == guarda = 1 /\ (pegajoso \/ m[Mantisa] = 1)
      r == IF sube THEN Inc(m) ELSE m
  IN IF Len(r) > Mantisa THEN [e |-> e + 1, m |-> SubSeq(r, 1, Mantisa)]
                         ELSE [e |-> e, m |-> r]

\* parseFloat of the decimal text of an amount: the double nearest to
\* entero + centavos/100
ParseFloat(a) ==
  IF a.entero = 0 /\ a.centavos = 0 THEN Cero
  ELSE IF a.entero > 0
    THEN LET ib == IntBits(a.entero)
             f == FracBits(a.centavos, Mantisa + 1 - Len(ib))
         IN Redondear(ib \o f.bits, f.resto # 0, Len(ib) - 1)
  ELSE LET z == CerosIniciales(a.centavos)
           f == FracBits(a.centavos, z + Mantisa + 1)
       IN Redondear(SubSeq(f.bits, z + 1, z + Mantisa + 1), f.resto # 0, -(z + 1))

\* the carry into digit i of the sum of two binary numerals of the same
\* length: a lower digit where both have 1, and every digit between
\* passes it on
Acarreo(A, B, i) ==
  IF \E j \in (i + 1)..Len(A) :
       /\ A[j] + B[j] = 2
       /\ \A k \in (i + 1)..(j - 1) : A[k] + B[k] >= 1
    THEN 1 ELSE 0

\* the sum of two binary numerals of the same length, one digit longer
SumBits(A, B) ==
  [i \in 1..(Len(A) + 1) |->
     IF i = 1 THEN Acarreo(A, B, 0)
     ELSE (A[i - 1] + B[i - 1] + Acarreo(A, B, i - 1)) % 2]

\* JavaScript `x + y` on doubles: the exact sum, rounded
Suma(x, y) ==
  IF x = Cero THEN y
  ELSE IF y = Cero THEN x
  ELSE LET a == IF x.e >= y.e THEN x ELSE y
           b == IF x.e >= y.e THEN y ELSE x
           d == a.e - b.e
           S == SumBits(a.m \o Ceros(d), Ceros(d) \o b.m)
       IN IF S[1] = 1 THEN Redondear(S, FALSE, a.e + 1)
                      ELSE Redondear(Tail(S), FALSE, a.e)

\* Reserva.create: `importe_servicios += parseFloat(servicio.importe)` over
\* the listed services, from 0
RECURSIVE ImporteServicios(_, _)
ImporteServicios(lista, acumulado) ==
  IF lista = << >> THEN acumulado
  ELSE ImporteServicios(Tail(lista), Suma(acumulado, ParseFloat(Head(lista))))

\* Reserva.create: `importe_total = importe_salon + importe_servicios`,
\* importe_salon = parseFloat(salon.importe); without services the total is
\* importe_salon
ImporteTotal(importeSalon, lista) ==
  IF lista = << >> THEN ParseFloat(importeSalon)
  ELSE Suma(ParseFloat(importeSalon), ImporteServicios(lista, Cero))

\* the amounts of a salon and of the services of one reservation
Decimal(entero, centavos) == [entero |-> entero, centavos |-> centavos]
ImportesSalon ==
  {Decimal(0, 10), Decimal(0, 30), Decimal(1, 10), Decimal(100, 0), Decimal(2500, 50),
   Decimal(99999999, 99)}
ImportesServicio == {Decimal(0, 1), Decimal(0, 20), Decimal(2, 20), Decimal(150, 75)}
ListasImportes ==
  {<< >>} \cup {<<x>> : x \in ImportesServicio}
          \cup {<<x, y>> : x \in ImportesServicio, y \in ImportesServicio}

\* the total Reserva.create computes for a salon and services of these
\* amounts, kept with the amounts it was computed from
CalcularImporteTotal(importeSalon, lista) ==
  /\ last' = RespuestaCon("importe_total", 0, 0, FALSE,
                          [importe_salon |-> importeSalon, servicios |-> lista],
                          <<ImporteTotal(importeSalon, lista)>>)
  /\ UNCHANGED <<reservas, rs, nextId, catalogo, procs, hoy>>

NextDecimal ==
  \E importeSalon \in ImportesSalon, lista \in ListasImportes :
    CalcularImporteTotal(importeSalon, lista)

SpecDecimal == Init /\ [][NextDecimal]_vars

\* ------------------------- SpecFecha: the date rule and the server's day
\* validateReservaCreate, fecha_reserva: `new Date(value)` is midnight UTC of
\* the date, `hoy.setHours(0, 0, 0, 0)` midnight of today in the server's
\* zone, and `fecha < hoy` is refused.  West of UTC (oeste) today's date is
\* before today's local midnight, so the earliest date let through is
\* tomorrow; in UTC and east of it, today.
FechaValida(fecha, dia, oeste) == IF oeste THEN fecha > dia ELSE fecha >= dia

\* POST /reservas up to the controller: validateReservaCreate and
\* handleValidationErrors.  A refused date is answered 400; an accepted
\* request is in flight until the controller runs.
ValidateReservaCreate(body, oeste) ==
  /\ procs = << >>
  /\ IF FechaValida(body.fecha_reserva, hoy, oeste)
       THEN /\ procs' = <<[pc |-> "create", body |-> body]>>
            /\ UNCHANGED last
       ELSE /\ last' = Rechazo("create", 0, "validacion", FALSE, body)
            /\ UNCHANGED procs
  /\ UNCHANGED <<reservas, rs, nextId, catalogo, hoy>>

\* ReservasController.create for the request in flight
CreateValidada ==
  /\ procs # << >>
  /\ CreateHandler(1, ADMINISTRADOR, procs[1].body, "ninguna")
  /\ procs' = << >>
  /\ UNCHANGED <<catalogo, hoy>>

\* the server's day changes
Medianoche ==
  /\ hoy + 1 \in Fechas
  /\ hoy' = hoy + 1
  /\ UNCHANGED <<reservas, rs, nextId, catalogo, last, procs>>

AltasFecha == {NuevaReserva(f, s, 1, 1, << >>) : f \in Fechas, s \in {1, 2}}

NextFecha ==
  \/ /\ nextId <= MaxReservas
     /\ \E body \in AltasFecha, oeste \in BOOLEAN : ValidateReservaCreate(body, oeste)
  \/ CreateValidada
  \/ Medianoche
  \/ \E id \in 1..MaxReservas : Delete(ADMINISTRADOR, id)

SpecFecha == Init /\ [][NextFecha]_vars

\* ------------------- SpecAlmacen: a failing statement in every position
\* create, update and restore with one statement of the request failing in
\* the storage: the connection, a lookup, a write, the final read
FallasAlmacenCreate ==
  {"ninguna", "conexion", "check", "buscar_salon", "buscar_usuario", "buscar_turno",
   "insert", "buscar_servicio", "join", "total", "hydrate"}
FallasAlmacenUpdate ==
  {"ninguna", "buscar_reserva", "conexion", "check", "buscar_salon", "buscar_turno",
   "buscar_servicio", "join", "update", "hydrate"}
FallasAlmacenRestore == {"ninguna", "buscar_reserva", "check", "update", "conexion", "hydrate"}
\* one body with every reference active, and one per reference that is not
AltasAlmacen ==
  {NuevaReserva(1, 1, 1, 1, <<1>>), NuevaReserva(1, 3, 1, 1, << >>),
   NuevaReserva(1, 1, 2, 1, << >>), NuevaReserva(1, 1, 1, 2, << >>),
   NuevaReserva(1, 1, 1, 1, <<3>>)}
CambiosAlmacen ==
  {Campos(2, 2, 1, 0, <<1>>, "absent"), Campos(0, 3, 0, 0, SinLista, "absent"),
   Campos(0, 0, 2, 0, SinLista, "absent"), Campos(0, 0, 0, 0, <<3>>, "absent")}

NextAlmacen ==
  \/ /\ nextId <= MaxReservas
     /\ \E body \in AltasAlmacen, falla \in FallasAlmacenCreate :
          Create(1, ADMINISTRADOR, body, falla)
  \/ \E id \in 1..MaxReservas, body \in CambiosAlmacen, falla \in FallasAlmacenUpdate :
       Update(ADMINISTRADOR, id, body, falla, FALSE)
  \/ \E id \in 1..MaxReservas : Delete(ADMINISTRADOR, id)
  \/ \E id \in 1..MaxReservas, falla \in FallasAlmacenRestore :
       RestoreCon(ADMINISTRADOR, id, falla)

SpecAlmacen == Init /\ [][NextAlmacen]_vars

\* --------------------------- SpecFalla: failures inside the transaction
\* create / update / partialUpdate with missing or inactive references and
\* with storage faults at the statements of the transaction.
FallasCreate == {"ninguna", "insert", "join", "total", "hydrate"}
FallasUpdate == {"ninguna", "join", "update", "hydrate"}
ListasFalla == {<< >>, <<1>>, <<1, 3>>}

AltasFalla == {NuevaReserva(1, s, 1, 1, srv) : s \in {1, 2}, srv \in ListasFalla}
AltasReferencias ==
  {NuevaReserva(1, s, u, t, <<1>>) : s \in {1, 3, 4}, u \in {0, 1, 2}, t \in Turnos}
    \cup {NuevaReserva(1, 1, 1, 1, <<2, 4>>)}
CambiosReferencias ==
  {Campos(0, s, t, tem, srv, "absent") :
     s \in {0} \cup Salones, t \in {0, 2}, tem \in Textos,
     srv \in {SinLista, <<1, 3>>}}
CambiosFalla ==
  {Campos(0, s, 0, 0, srv, "absent") : s \in {0, 2}, srv \in {SinLista} \cup ListasFalla}

NextFalla ==
  \/ /\ nextId <= MaxReservas
     /\ \/ \E body \in AltasFalla, falla \in FallasCreate :
             Create(1, ADMINISTRADOR, body, falla)
        \/ \E body \in AltasReferencias : Create(1, EMPLEADO, body, "ninguna")
  \/ \E id \in 1..MaxReservas, body \in CambiosReferencias :
       Update(ADMINISTRADOR, id, body, "ninguna", FALSE)
  \/ \E id \in 1..MaxReservas, body \in CambiosFalla, falla \in FallasUpdate :
       PartialUpdate(ADMINISTRADOR, id, body, falla, FALSE)

SpecFalla == Init /\ [][NextFalla]_vars

\* ------------------------------ SpecConc: requests served concurrently
\* Each request is served by one of the processes of Procs and advances at
\* its awaits: the reads through the pool see what is committed at that
\* moment, the writes through the connection are kept by the process until
\* its commit.  A row written inside a transaction stays locked until the
\* commit, which makes the other writers of that row wait.
Procs == {1, 2}
Idle == [pc |-> "idle"]

Locked(id) == \E q \in Procs : procs[q].pc = "u_commit" /\ procs[q].id = id

Db == [reservas |-> reservas, rs |-> rs]

\* ReservasController.create up to the start of the transaction
CreateBegin(p, uid, tipo, body) ==
  /\ procs[p].pc = "idle"
  /\ LET usuario_id == IF tipo = CLIENTE THEN uid ELSE body.usuario_id IN
     IF usuario_id = 0
       THEN /\ last' = Rechazo("create", 0, "usuario_requerido", FALSE, body)
            /\ UNCHANGED procs
       ELSE /\ procs' = [procs EXCEPT ![p] =
                           [pc |-> "c_check", d |-> [body EXCEPT !.usuario_id = usuario_id]]]
            /\ UNCHANGED last
  /\ UNCHANGED <<reservas, rs, nextId, catalogo, hoy>>

\* Reserva.create: await Reserva.checkAvailability(...)
CreateCheck(p) ==
  /\ procs[p].pc = "c_check"
  /\ IF CreateDisponible(Db, procs[p].d)
       THEN /\ procs' = [procs EXCEPT ![p].pc = "c_write"]
            /\ UNCHANGED last
       ELSE /\ procs' = [procs EXCEPT ![p] = Idle]
            /\ last' = Rechazo("create", 0, "no_disponible", FALSE, procs[p].d)
  /\ UNCHANGED <<reservas, rs, nextId, catalogo, hoy>>

\* Reserva.create: the lookups and the INSERTs on the connection
CreateWrite(p) ==
  /\ procs[p].pc = "c_write"
  /\ LET out == CreateWrites(Db, nextId, procs[p].d, "ninguna") IN
       /\ nextId' = IF out.wrote THEN nextId + 1 ELSE nextId
       /\ IF out.ok
            THEN /\ procs' = [procs EXCEPT ![p] =
                                [pc |-> "c_commit", d |-> procs[p].d, id |-> nextId,
                                 fila |-> out.reservas[nextId],
                                 filas |-> JoinRows(out.rs, nextId),
                                 data |-> CreateReturns(Db, nextId)]]
                 /\ UNCHANGED last
            ELSE /\ procs' = [procs EXCEPT ![p] = Idle]
                 /\ last' = Rechazo("create", IF out.wrote THEN nextId ELSE 0,
                                     out.err, out.wrote, procs[p].d)
  /\ UNCHANGED <<reservas, rs, catalogo, hoy>>

\* executeTransaction: connection.commit() of a create, then the response
CreateCommit(p) ==
  /\ procs[p].pc = "c_commit"
  /\ reservas' = reservas @@ (procs[p].id :> procs[p].fila)
  /\ rs' = rs \o procs[p].filas
  /\ last' = RespuestaCon("create", procs[p].id, 201, TRUE, procs[p].d, procs[p].data)
  /\ procs' = [procs EXCEPT ![p] = Idle]
  /\ UNCHANGED <<nextId, catalogo, hoy>>

\* ReservasController.update / partialUpdate: the role gate and findById
UpdateBegin(p, op, tipo, id, body, fechaObj) ==
  /\ procs[p].pc = "idle"
  /\ IF ~SoloAdministrador(tipo)
       THEN last' = Rechazo(op, id, "permiso", FALSE, body) /\ UNCHANGED procs
     ELSE IF id \notin DOMAIN reservas
       THEN last' = Rechazo(op, id, "no_encontrada", FALSE, body) /\ UNCHANGED procs
     ELSE /\ procs' = [procs EXCEPT ![p] =
                         [pc |-> "u_check", op |-> op, id |-> id, self |-> reservas[id],
                          d |-> IF op = "update" THEN [body EXCEPT !.has.activo = FALSE]
                                ELSE body,
                          fechaObj |-> fechaObj]]
          /\ UNCHANGED last
  /\ UNCHANGED <<reservas, rs, nextId, catalogo, hoy>>

\* Reserva.update: await Reserva.checkAvailability(...) when the slot changes
UpdateCheck(p) ==
  /\ procs[p].pc = "u_check"
  /\ LET r == procs[p] IN
     IF UpdateDisponible(Db, r.id, r.self, r.d, r.fechaObj)
       THEN /\ procs' = [procs EXCEPT ![p].pc = "u_write"]
            /\ UNCHANGED last
       ELSE /\ procs' = [procs EXCEPT ![p] = Idle]
            /\ last' = Rechazo(r.op, r.id, "no_disponible", FALSE, r.d)
  /\ UNCHANGED <<reservas, rs, nextId, catalogo, hoy>>

\* Reserva.update: the lookups, the join rows and the UPDATE on the connection
UpdateWrite(p) ==
  /\ procs[p].pc = "u_write"
  /\ ~Locked(procs[p].id)
  /\ LET r == procs[p]
         out == UpdateWrites(Db, r.id, r.self, r.d, "ninguna")
     IN IF out.ok /\ out.wrote
          THEN /\ procs' = [procs EXCEPT ![p] =
                              [pc |-> "u_commit", op |-> r.op, id |-> r.id, d |-> r.d,
                               fila |-> out.reservas[r.id],
                               filas |-> JoinRows(out.rs, r.id),
                               data |-> UpdateReturns(Db, r.id, r.self, TRUE)]]
               /\ UNCHANGED last
          ELSE /\ procs' = [procs EXCEPT ![p] = Idle]
               /\ last' = IF out.ok
                             THEN RespuestaCon(r.op, r.id, 200, FALSE, r.d,
                                               UpdateReturns(Db, r.id, r.self, FALSE))
                             ELSE Rechazo(r.op, r.id, out.err, out.wrote, r.d)
  /\ UNCHANGED <<reservas, rs, nextId, catalogo, hoy>>

\* executeTransaction: connection.commit() of an update, then the response
UpdateCommit(p) ==
  /\ procs[p].pc = "u_commit"
  /\ LET r == procs[p] IN
       /\ reservas' = [reservas EXCEPT ![r.id] = r.fila]
       /\ rs' = IF r.d.has.servicios
                  THEN DeleteJoinRows(rs, r.id) \o r.filas ELSE rs
       /\ last' = RespuestaCon(r.op, r.id, 200, TRUE, r.d, r.data)
  /\ procs' = [procs EXCEPT ![p] = Idle]
  /\ UNCHANGED <<nextId, catalogo, hoy>>

\* ReservasController.restore: the role gate, findById and the state check
RestoreBegin(p, tipo, id) ==
  /\ procs[p].pc = "idle"
  /\ IF ~SoloAdministrador(tipo)
       THEN last' = Rechazo("restore", id, "permiso", FALSE, 0) /\ UNCHANGED procs
     ELSE IF id \notin DOMAIN reservas
       THEN last' = Rechazo("restore", id, "no_encontrada", FALSE, 0) /\ UNCHANGED procs
     ELSE IF YaActiva(reservas, id)
       THEN last' = Rechazo("restore", id, "estado", FALSE, 0) /\ UNCHANGED procs
     ELSE /\ procs' = [procs EXCEPT ![p] =
                         [pc |-> "r_check", id |-> id, self |-> reservas[id]]]
          /\ UNCHANGED last
  /\ UNCHANGED <<reservas, rs, nextId, catalogo, hoy>>

\* Reserva.restore: await Reserva.checkAvailability(this.salon_id, ...)
RestoreCheck(p) ==
  /\ procs[p].pc = "r_check"
  /\ LET r == procs[p] IN
     IF CheckAvailability(reservas, r.self.salon_id, r.self.fecha_reserva,
                          r.self.turno_id, r.id)
       THEN /\ procs' = [procs EXCEPT ![p].pc = "r_write"]
            /\ UNCHANGED last
       ELSE /\ procs' = [procs EXCEPT ![p] = Idle]
            /\ last' = Rechazo("restore", r.id, "restaurar", FALSE, 0)
  /\ UNCHANGED <<reservas, rs, nextId, catalogo, hoy>>

\* Reserva.restore: UPDATE reservas SET activo = 1 through the pool
RestoreWrite(p) ==
  /\ procs[p].pc = "r_write"
  /\ ~Locked(procs[p].id)
  /\ reservas' = SetActivo(reservas, procs[p].id, TRUE)
  /\ last' = Respuesta("restore", procs[p].id, 200, TRUE, 0)
  /\ procs' = [procs EXCEPT ![p] = Idle]
  /\ UNCHANGED <<rs, nextId, catalogo, hoy>>

\* ReservasController.delete: the role gate, findById and the state check
DeleteBegin(p, tipo, id) ==
  /\ procs[p].pc = "idle"
  /\ IF ~SoloAdministrador(tipo)
       THEN last' = Rechazo("delete", id, "permiso", FALSE, 0) /\ UNCHANGED procs
     ELSE IF id \notin DOMAIN reservas
       THEN last' = Rechazo("delete", id, "no_encontrada", FALSE, 0) /\ UNCHANGED procs
     ELSE IF YaEliminada(reservas, id)
       THEN last' = Rechazo("delete", id, "estado", FALSE, 0) /\ UNCHANGED procs
     ELSE /\ procs' = [procs EXCEPT ![p] = [pc |-> "d_write", id |-> id]]
          /\ UNCHANGED last
  /\ UNCHANGED <<reservas, rs, nextId, catalogo, hoy>>

\* Reserva.softDelete: UPDATE reservas SET activo = 0 through the pool
DeleteWrite(p) ==
  /\ procs[p].pc = "d_write"
  /\ ~Locked(procs[p].id)
  /\ reservas' = SetActivo(reservas, procs[p].id, FALSE)
  /\ last' = Respuesta("delete", procs[p].id, 200, TRUE, 0)
  /\ procs' = [procs EXCEPT ![p] = Idle]
  /\ UNCHANGED <<rs, nextId, catalogo, hoy>>

InitConc ==
  /\ Init!1 /\ Init!2 /\ Init!3 /\ Init!4 /\ Init!5 /\ Init!6 /\ Init!7 /\ Init!8
  /\ Init!10
  /\ procs = [p \in Procs |-> Idle]

AltasConc == {NuevaReserva(1, s, 1, 1, << >>) : s \in {1, 2}}
CambiosConc == {Campos(0, s, 0, 0, SinLista, "absent") : s \in {1, 2}}

NextConc ==
  \/ /\ nextId <= MaxReservas
     /\ \E p \in Procs, body \in AltasConc : CreateBegin(p, 1, ADMINISTRADOR, body)
  \/ \E p \in Procs : CreateCheck(p)
  \/ \E p \in Procs : CreateWrite(p)
  \/ \E p \in Procs : CreateCommit(p)
  \/ \E p \in Procs, id \in 1..MaxReservas, body \in CambiosConc :
       UpdateBegin(p, "partialUpdate", ADMINISTRADOR, id, body, FALSE)
  \/ \E p \in Procs : UpdateCheck(p)
  \/ \E p \in Procs : UpdateWrite(p)
  \/ \E p \in Procs : UpdateCommit(p)
  \/ \E p \in Procs, id \in 1..MaxReservas : RestoreBegin(p, ADMINISTRADOR, id)
  \/ \E p \in Procs : RestoreCheck(p)
  \/ \E p \in Procs : RestoreWrite(p)
  \/ \E p \in Procs, id \in 1..MaxReservas : DeleteBegin(p, ADMINISTRADOR, id)
  \/ \E p \in Procs : DeleteWrite(p)

SpecConc == InitConc /\ [][NextConc]_vars

\* ================================================================ claims
SameSlot(a, b) ==
  /\ a.salon_id = b.salon_id
  /\ a.fecha_reserva = b.fecha_reserva
  /\ a.turno_id = b.turno_id

\* the row of reserva_id i holds a slot that another active row holds too
SlotTaken(tbl, i) ==
  \E j \in DOMAIN tbl : j # i /\ tbl[j].activo /\ SameSlot(tbl[i], tbl[j])

EsUpdate(r) == r.op \in {"update", "partialUpdate"}

\* C1 (as claimed; refuted under Spec): after any sequence of committed
\* create, update, partialUpdate, softDelete and restore operations, at
\* most one active reservation exists for every (salon, date, turno).
C1_SlotExclusivo ==
  \A i \in DOMAIN reservas :
    reservas[i].activo => ~SlotTaken(reservas, i)

\* C3 (as claimed; refuted under SpecImporte): every active reservation has
\* importe_total = importe_salon + the sum of its join rows' importe.
C3_TotalCorrecto ==
  \A i \in DOMAIN reservas :
    reservas[i].activo =>
      reservas[i].importe_total = reservas[i].importe_salon + TotalServicios(rs, i)

\* C4: a create that fails after it started writing leaves no reservation
\* row and no reservas_servicios row of the attempt (the id its INSERT was
\* given).
C4_CreateAtomico ==
  (last.op = "create" /\ last.status # 201 /\ last.wrote) =>
    /\ last.id \notin DOMAIN reservas
    /\ JoinRows(rs, last.id) = << >>

\* C4 witness: a create whose second service is inactive was rejected with
\* 400 after the reservation row and the first join row had been inserted.
C4_Witness ==
  /\ last.op = "create" /\ last.status = 400 /\ last.wrote
  /\ last.req.servicios = <<1, 3>>
  /\ last.id = nextId - 1

\* C5: restore of an inactive reservation whose slot is held by another
\* active reservation is rejected with 400 and changes no row: the restored
\* one stays inactive, the occupant stays active.
C5_RestoreBloqueado ==
  [][ (/\ last'.op = "restore"
       /\ last'.status # 403
       /\ last'.id \in DOMAIN reservas
       /\ ~reservas[last'.id].activo
       /\ SlotTaken(reservas, last'.id))
      => (last'.status = 400 /\ reservas' = reservas /\ rs' = rs) ]_vars

\* C5 witness: reservation 1 was created, soft-deleted, reservation 2 took
\* the slot, and restore(1) has just been answered 400.
C5_Witness ==
  /\ last.op = "restore" /\ last.id = 1 /\ last.status = 400
  /\ DOMAIN reservas = {1, 2}
  /\ ~reservas[1].activo /\ reservas[2].activo
  /\ SameSlot(reservas[1], reservas[2])

\* C7 (as claimed; refuted under Spec): a successful softDelete(id) changes
\* only activo, and a restore(id) that follows it immediately succeeds and
\* gives back the row and join rows as they were before the softDelete.
C7_Reversible ==
  [][ /\ (last'.op = "delete" /\ last'.status = 200) =>
           (reservas' = SetActivo(reservas, last'.id, FALSE) /\ rs' = rs)
      /\ (/\ last.op = "delete" /\ last.status = 200
          /\ last'.op = "restore" /\ last'.id = last.id /\ last'.status # 403) =>
           (/\ last'.status = 200
            /\ reservas' = SetActivo(reservas, last.id, TRUE)
            /\ rs' = rs) ]_vars

\* C8 (as claimed; refuted under SpecImporte): an update that leaves the
\* salon as it was keeps importe_salon, and a total it recomputes is that
\* snapshot plus the join rows.
C8_Snapshot ==
  [][ (/\ EsUpdate(last') /\ last'.status = 200
       /\ reservas'[last'.id].salon_id = reservas[last'.id].salon_id)
      => (/\ reservas'[last'.id].importe_salon = reservas[last'.id].importe_salon
          /\ \/ reservas'[last'.id].importe_total = reservas[last'.id].importe_total
             \/ reservas'[last'.id].importe_total =
                  reservas[last'.id].importe_salon + TotalServicios(rs', last'.id)) ]_vars

\* the join rows a service list stands for, at the catalogue's prices
FilasDe(rid, lista) ==
  [k \in 1..Len(lista) |->
     [reserva_id |-> rid, servicio_id |-> lista[k],
      importe |-> servicios[lista[k]].importe]]

\* C9: after a successful update or partialUpdate that carries a service
\* list (empty or not) the reservation's join rows are exactly the supplied
\* services at the prices of the catalogue at that time; without a list the
\* join rows are unchanged.  The rows of other reservations never change.
C9_ServiciosReemplazados ==
  [][ (EsUpdate(last') /\ last'.status = 200) =>
        /\ JoinRows(rs', last'.id) =
             IF last'.req.has.servicios
               THEN FilasDe(last'.id, last'.req.servicios)
               ELSE JoinRows(rs, last'.id)
        /\ \A j \in DOMAIN reservas :
             j # last'.id => JoinRows(rs', j) = JoinRows(rs, j) ]_vars

\* C9 witness: reservation 1 holds exactly services 1 and 2 after an update
\* that supplied that list, the row of service 1 at a price that was set
\* after the booking.
C9_Witness ==
  /\ EsUpdate(last) /\ last.status = 200 /\ last.id = 1
  /\ last.req.has.servicios /\ last.req.servicios = <<1, 2>>
  /\ Len(JoinRows(rs, 1)) = 2
  /\ JoinRows(rs, 1)[1].importe = 2
  /\ 2 \in DOMAIN reservas /\ JoinRows(rs, 2) # << >>

\* C10: an update or partialUpdate that fails (slot taken, salon or turno
\* inactive, service inactive after the old join rows were deleted, storage
\* fault) leaves reservas and reservas_servicios as they were.
C10_UpdateAtomico ==
  [][ (EsUpdate(last') /\ last'.status \notin {200, 403, 404}) =>
        (reservas' = reservas /\ rs' = rs) ]_vars

\* C10 witness: a partialUpdate that had already deleted the old join rows
\* and inserted a new one was rejected because its second service is
\* inactive, and the reservation still has the join row it had.
C10_Witness ==
  /\ last.op = "partialUpdate" /\ last.status = 400 /\ last.wrote
  /\ last.req.servicios = <<1, 3>>
  /\ JoinRows(rs, last.id) # << >>

\* The step in which process p answers a request it was serving at one of pcs
Termina(pcs) ==
  \E p \in Procs : procs[p].pc \in pcs /\ procs'[p].pc = "idle"

\* C2 (as claimed; refuted under SpecConc): of two creates for one slot only
\* one succeeds: a create that completes while an active reservation holds
\* the slot it asked for is rejected with 400.
C2_UnSoloExito ==
  [][ (/\ Termina({"c_check", "c_write", "c_commit"})
       /\ \E j \in DOMAIN reservas :
            reservas[j].activo /\ SameSlot(reservas[j], last'.req))
      => last'.status = 400 ]_vars

\* C6 (as claimed; refuted under SpecConc): starting from tables in which no
\* slot is double-booked, a restore or an update that succeeds leaves the
\* reservation it wrote alone on its slot, whatever ran concurrently.
C6_GanaElPrimero ==
  [][ (/\ C1_SlotExclusivo
       /\ Termina({"u_check", "u_write", "u_commit", "r_check", "r_write"})
       /\ last'.status = 200
       /\ reservas'[last'.id].activo)
      => ~SlotTaken(reservas', last'.id) ]_vars

\* C11 (as claimed; refuted under Spec): the record a successful create or
\* update sends back is not null and equals the reservation, with its
\* service rows, as that operation committed it.
C11_DevuelveLoEscrito ==
  ((last.op = "create" /\ last.status = 201) \/ (EsUpdate(last) /\ last.status = 200))
    => last.data = FindById(Db, last.id)

\* C12 (as claimed; refuted under Spec): a successful update or
\* partialUpdate is applied to an active reservation and leaves it active;
\* activo changes only by softDelete (true to false) and by restore (false
\* to true, the slot being free of other active reservations).
C12_ActivaAActiva ==
  [][ /\ (EsUpdate(last') /\ last'.status = 200) =>
           (reservas[last'.id].activo /\ reservas'[last'.id].activo)
      /\ \A i \in DOMAIN reservas :
           reservas'[i].activo # reservas[i].activo =>
             \/ (last'.op = "delete" /\ last'.id = i /\ reservas[i].activo)
             \/ (/\ last'.op = "restore" /\ last'.id = i /\ ~reservas[i].activo
                 /\ ~SlotTaken(reservas, i)) ]_vars

\* Argument values of checkAvailability: every id the table can hold, one id
\* beyond it, and 0 for the default null
Excluibles == 0 .. (MaxReservas + 1)

\* C13: checkAvailability(salonId, fecha, turnoId, excludeReservaId) is false
\* exactly when some row has the same salon, date and turno, is active and
\* has a reserva_id other than excludeReservaId, for every table the
\* application reaches and every argument tuple.
C13_CheckAvailability ==
  \A s \in Salones, f \in Fechas, t \in Turnos, e \in Excluibles :
    (CheckAvailability(reservas, s, f, t, e) = FALSE)
      <=> \E i \in DOMAIN reservas :
            /\ reservas[i].salon_id = s
            /\ reservas[i].fecha_reserva = f
            /\ reservas[i].turno_id = t
            /\ reservas[i].activo
            /\ i # e

\* An active row answers false to everyone but itself, and an inactive row
\* alone on its slot leaves the slot available.
C13_Witness ==
  \E i, j \in DOMAIN reservas :
    /\ reservas[i].activo /\ ~reservas[j].activo /\ ~SameSlot(reservas[i], reservas[j])
    /\ ~CheckAvailability(reservas, reservas[i].salon_id, reservas[i].fecha_reserva, reservas[i].turno_id, 0)
    /\ CheckAvailability(reservas, reservas[i].salon_id, reservas[i].fecha_reserva, reservas[i].turno_id, i)
    /\ CheckAvailability(reservas, reservas[j].salon_id, reservas[j].fecha_reserva, reservas[j].turno_id, 0)

\* the slot an update with data d asks for, for the loaded row self
NuevoSlot(self, d) ==
  [salon_id |-> NewSalon(self, d), fecha_reserva |-> NewFecha(self, d),
   turno_id |-> NewTurno(self, d)]

\* another active reservation than id holds the slot
OtraActiva(tbl, id, slot) ==
  \E j \in DOMAIN tbl : j # id /\ tbl[j].activo /\ SameSlot(tbl[j], slot)

\* C14: an update is refused for availability only when another active
\* reservation holds the slot it asks for (never because of the reservation
\* itself), and an update that changes date, salon or turno to a slot held
\* by another active reservation is refused with 400 and writes nothing.
C14_UpdateDisponibilidad ==
  [][ (EsUpdate(last') /\ last'.id \in DOMAIN reservas /\ last'.status \notin {403, 404}) =>
        LET self == reservas[last'.id]
            slot == NuevoSlot(self, last'.req)
            otra == OtraActiva(reservas, last'.id, slot)
        IN /\ last'.error = "no_disponible" => otra
           /\ (~SameSlot(self, slot) /\ otra) =>
                 /\ last'.error = "no_disponible" /\ last'.status = 400
                 /\ reservas' = reservas /\ rs' = rs ]_vars

\* an update to a slot another active reservation holds was refused, while
\* the reservation addressed is active too
C14_Witness ==
  /\ EsUpdate(last) /\ last.error = "no_disponible" /\ last.status = 400
  /\ last.id \in DOMAIN reservas /\ reservas[last.id].activo
  /\ ~SameSlot(reservas[last.id], NuevoSlot(reservas[last.id], last.req))
  /\ OtraActiva(reservas, last.id, NuevoSlot(reservas[last.id], last.req))

\* C15: the answer of the check-availability endpoint, and the answers of
\* the Salon and Turno availability helpers, are 'available' exactly when a
\* create for the same (salon, date, turno) would pass its availability
\* step, in every state and for every tuple.
C15_MismaDisponibilidad ==
  /\ (last.op = "checkAvailability" /\ last.status = 200) =>
        last.data[1].disponible = CreateDisponible(Db, last.req)
  /\ \A s \in Salones, f \in Fechas, t \in Turnos :
        LET d == [salon_id |-> s, fecha_reserva |-> f, turno_id |-> t] IN
        /\ SalonCheckAvailability(reservas, s, f, t) = CreateDisponible(Db, d)
        /\ TurnoCheckAvailability(reservas, t, f, s) = CreateDisponible(Db, d)

\* the endpoint answered 'available' for a slot held only by an inactive
\* reservation, while another slot is held by an active one
C15_Witness ==
  /\ last.op = "checkAvailability" /\ last.status = 200 /\ last.data[1].disponible
  /\ \E i, j \in DOMAIN reservas :
        /\ ~reservas[i].activo /\ SameSlot(reservas[i], last.req)
        /\ reservas[j].activo /\ ~SalonCheckAvailability(reservas, reservas[j].salon_id,
                                     reservas[j].fecha_reserva, reservas[j].turno_id)

\* C16: a create for a slot that an active reservation holds is answered
\* 400 at its single availability check: no INSERT is attempted, no id is
\* consumed, and reservas and reservas_servicios stay as they were.
C16_CreateRechazado ==
  [][ (last'.op = "create" /\ OtraActiva(reservas, 0, last'.req)) =>
        /\ last'.status = 400
        /\ last'.error \in {"no_disponible", "usuario_requerido"}
        /\ last'.req.usuario_id # 0 => last'.error = "no_disponible"
        /\ ~last'.wrote
        /\ reservas' = reservas /\ rs' = rs /\ nextId' = nextId ]_vars

\* a create on a held slot was refused while service rows exist
C16_Witness ==
  /\ last.op = "create" /\ last.status = 400 /\ last.error = "no_disponible"
  /\ OtraActiva(reservas, 0, last.req)
  /\ rs # << >>

\* no active row of the table has this id
Falta(tabla, id) == ~(id \in DOMAIN tabla /\ tabla[id].activo)

\* the first listed service that has no active row, 0 when there is none
RECURSIVE PrimerServicioQueFalta(_)
PrimerServicioQueFalta(lista) ==
  IF lista = << >> THEN 0
  ELSE IF Falta(servicios, Head(lista)) THEN Head(lista)
  ELSE PrimerServicioQueFalta(Tail(lista))

\* the reference a create with data d fails on, in the order the lookups
\* run: salon, user, turno, then the services as listed ("" when none fails)
ReferenciaQueFalta(d) ==
  IF Falta(salones, d.salon_id) THEN "salon"
  ELSE IF Falta(usuarios, d.usuario_id) THEN "usuario"
  ELSE IF Falta(turnos, d.turno_id) THEN "turno"
  ELSE IF PrimerServicioQueFalta(d.servicios) # 0
    THEN ErrServicio[PrimerServicioQueFalta(d.servicios)]
  ELSE ""

\* C17: a create on a free slot whose salon, user, turno or a listed
\* service is missing or inactive persists nothing and is answered 400 with
\* the error naming that reference (the service id for a service); only a
\* storage failure of the reservation's own INSERT, which precedes the
\* service lookups, can answer in its place.
C17_ReferenciaRechazada ==
  [][ (/\ last'.op = "create" /\ last'.req.usuario_id # 0
       /\ ~OtraActiva(reservas, 0, last'.req)
       /\ ReferenciaQueFalta(last'.req) # "") =>
        /\ reservas' = reservas /\ rs' = rs
        /\ \/ last'.error = ReferenciaQueFalta(last'.req) /\ last'.status = 400
           \/ /\ last'.error = "storage" /\ last'.status = 500 /\ ~last'.wrote
              /\ ReferenciaQueFalta(last'.req) \notin {"salon", "usuario", "turno"} ]_vars

\* a create naming an inactive service was refused after its reservation
\* row had been inserted, and the row is not in the table
C17_Witness ==
  /\ last.op = "create" /\ last.status = 400 /\ last.error = ErrServicio[3]
  /\ last.wrote /\ last.id \notin DOMAIN reservas
  /\ \A i \in 1..Len(rs) : rs[i].reserva_id # last.id

\* C18: a softDelete request on an inactive reservation is answered 400
\* (already eliminated), runs no UPDATE (so `modificado = NOW()` is not
\* written) and leaves both tables as they were; on an active reservation
\* it is answered 200 and the row's activo becomes false.
C18_SoftDelete ==
  [][ (last'.op = "delete" /\ last'.status # 403 /\ last'.id \in DOMAIN reservas) =>
        IF reservas[last'.id].activo
          THEN /\ last'.status = 200 /\ last'.wrote
               /\ ~reservas'[last'.id].activo
          ELSE /\ last'.status = 400 /\ last'.error = "estado" /\ ~last'.wrote
               /\ reservas' = reservas /\ rs' = rs ]_vars

\* a softDelete of an inactive reservation that has service rows was refused
C18_Witness ==
  /\ last.op = "delete" /\ last.status = 400 /\ last.error = "estado"
  /\ last.id \in DOMAIN reservas /\ ~reservas[last.id].activo
  /\ JoinRows(rs, last.id) # << >>

\* C19: a restore request on an active reservation is answered 400 (already
\* active), runs no UPDATE and leaves both tables as they were; on an
\* inactive reservation whose slot no other active reservation holds it is
\* answered 200, the row's activo becomes true and no other column of any
\* row, and no service row, changes.
C19_Restore ==
  [][ (last'.op = "restore" /\ last'.status # 403 /\ last'.id \in DOMAIN reservas) =>
        /\ reservas[last'.id].activo =>
              /\ last'.status = 400 /\ last'.error = "estado" /\ ~last'.wrote
              /\ reservas' = reservas /\ rs' = rs
        /\ (~reservas[last'.id].activo /\ ~OtraActiva(reservas, last'.id, reservas[last'.id])) =>
              /\ last'.status = 200 /\ last'.wrote
              /\ reservas' = [reservas EXCEPT ![last'.id].activo = TRUE]
              /\ rs' = rs ]_vars

\* a reservation with service rows was restored while another reservation
\* exists
C19_Witness ==
  /\ last.op = "restore" /\ last.status = 200
  /\ last.id \in DOMAIN reservas /\ reservas[last.id].activo
  /\ JoinRows(rs, last.id) # << >>
  /\ Cardinality(DOMAIN reservas) > 1

\* C20: a softDelete that is carried out changes the activo flag of its
\* reservation and nothing else: the row's date, salon, user, turno, texts
\* and amounts, every other reservation and every reservas_servicios row
\* stay as they were.
C20_SoloActivo ==
  [][ (last'.op = "delete" /\ last'.status = 200) =>
        /\ rs' = rs
        /\ DOMAIN reservas' = DOMAIN reservas
        /\ \A i \in DOMAIN reservas :
              reservas'[i] = IF i = last'.id THEN [reservas[i] EXCEPT !.activo = FALSE]
                                           ELSE reservas[i] ]_vars

\* a reservation with service rows and a total above its salon amount was
\* soft-deleted while another reservation is active
C20_Witness ==
  /\ last.op = "delete" /\ last.status = 200
  /\ last.id \in DOMAIN reservas /\ ~reservas[last.id].activo
  /\ JoinRows(rs, last.id) # << >>
  /\ reservas[last.id].importe_total > reservas[last.id].importe_salon
  /\ \E j \in DOMAIN reservas : j # last.id /\ reservas[j].activo

\* C21: once the only active reservation on a slot is soft-deleted,
\* checkAvailability answers true for the slot, and a create for a slot held
\* only by inactive reservations, with active salon, user, turno and
\* services, is answered 201 and inserts an active row on the slot.
C21_SlotLiberado ==
  [][ /\ (/\ last'.op = "delete" /\ last'.status = 200
           /\ ~OtraActiva(reservas, last'.id, reservas[last'.id])) =>
            CheckAvailability(reservas', reservas[last'.id].salon_id,
                              reservas[last'.id].fecha_reserva,
                              reservas[last'.id].turno_id, 0)
      /\ (/\ last'.op = "create" /\ last'.req.usuario_id # 0
           /\ \E i \in DOMAIN reservas : ~reservas[i].activo /\ SameSlot(reservas[i], last'.req)
           /\ ~OtraActiva(reservas, 0, last'.req)
           /\ ReferenciaQueFalta(last'.req) = "") =>
            /\ last'.status = 201
            /\ last'.id \in DOMAIN reservas' \ DOMAIN reservas
            /\ reservas'[last'.id].activo
            /\ SameSlot(reservas'[last'.id], last'.req) ]_vars

\* a create succeeded on the slot of a soft-deleted reservation
C21_Witness ==
  /\ last.op = "create" /\ last.status = 201
  /\ last.id \in DOMAIN reservas /\ reservas[last.id].activo
  /\ \E i \in DOMAIN reservas :
        i # last.id /\ ~reservas[i].activo /\ SameSlot(reservas[i], reservas[last.id])

\* the user is authenticated and is not an administrator
NoAdministrador(uid) == VerifyToken(uid) /\ usuarios[uid].tipo # ADMINISTRADOR

\* C22: an update, partialUpdate, softDelete or restore requested by an
\* authenticated caller who is not an administrator is answered 403 and
\* leaves every table unchanged.
C22_SoloAdministradores ==
  [][ \A uid \in Llamadores, id \in 1..MaxReservas :
        (/\ NoAdministrador(uid)
         /\ \/ \E body \in CambiosRoles : RutaUpdate(uid, id, body)
            \/ \E body \in CambiosPatchRoles : RutaPartialUpdate(uid, id, body)
            \/ RutaDelete(uid, id)
            \/ RutaRestore(uid, id)) =>
          /\ last'.status = 403
          /\ reservas' = reservas /\ rs' = rs /\ nextId' = nextId
          /\ catalogo' = catalogo ]_vars

\* the employee's PATCH of an existing, active reservation was answered 403
C22_Witness ==
  /\ last.op = "partialUpdate" /\ last.status = 403 /\ last.error = "permiso"
  /\ last.id \in DOMAIN reservas /\ reservas[last.id].activo

\* C23 (as claimed; refuted under SpecRoles): a POST /reservas of an
\* authenticated client for a free slot reaches create and is answered 201,
\* and the reservation created carries the caller's id as usuario_id
\* whatever usuario_id the body carries.
C23_ClienteCrea ==
  [][ \A uid \in Llamadores, body \in AltasRoles :
        (/\ VerifyToken(uid) /\ usuarios[uid].tipo = CLIENTE
         /\ ~OtraActiva(reservas, 0, body)
         /\ RutaCreate(uid, body)) =>
          /\ last'.status = 201
          /\ last'.id \in DOMAIN reservas'
          /\ reservas'[last'.id].usuario_id = uid ]_vars

\* C24: what getAll and getById answer to a client holds no reservation of
\* another user: getById of another user's reservation is answered 403
\* with no data, and every row of the client's list carries the client's
\* id, whatever usuarioId the query names.
C24_SoloLasPropias ==
  [][ \A uid \in Lectores :
        usuarios[uid].tipo = CLIENTE =>
          /\ \A q \in Listados :
                GetAll(uid, CLIENTE, q) =>
                  \A i \in DOMAIN last'.data : last'.data[i].usuario_id = uid
          /\ \A id \in DOMAIN reservas :
                GetById(uid, CLIENTE, id) =>
                  IF reservas[id].usuario_id = uid
                    THEN last'.status = 200
                    ELSE last'.status = 403 /\ last'.data = << >> ]_vars

\* a list naming the administrator's usuarioId was answered with one row,
\* the client's, while the administrator owns an active reservation too
C24_Witness ==
  /\ last.op = "getAll" /\ last.status = 200 /\ last.req.usuarioId = 1
  /\ \E i \in DOMAIN reservas :
        /\ DOMAIN last.data = {i} /\ reservas[i].usuario_id = 3
  /\ \E j \in DOMAIN reservas : reservas[j].usuario_id = 1 /\ reservas[j].activo

\* the amounts of reservation i: its two row amounts and its join rows
Importes(tbl, join, i) ==
  [importe_salon |-> tbl[i].importe_salon, importe_total |-> tbl[i].importe_total,
   filas |-> JoinRows(join, i)]

\* C25 (as claimed; refuted under SpecImporte): a price change of a salon
\* or of a service leaves every reservation's importe_salon, join-row
\* importe and importe_total as they were, and these amounts change only in
\* an update of that reservation that moves it to another salon or carries
\* a service list.
C25_PreciosCongelados ==
  [][ /\ last'.op \in {"salonUpdate", "servicioUpdate"} =>
            (reservas' = reservas /\ rs' = rs)
      /\ \A i \in DOMAIN reservas :
            Importes(reservas', rs', i) # Importes(reservas, rs, i) =>
              /\ EsUpdate(last') /\ last'.id = i /\ last'.status = 200
              /\ \/ reservas'[i].salon_id # reservas[i].salon_id
                 \/ last'.req.has.servicios ]_vars

\* C26 (as claimed; refuted under SpecRepetidos): in every committed state
\* reservas_servicios holds at most one row per (reservation, service).
C26_UnaFilaPorServicio ==
  \A i, j \in 1..Len(rs) :
    (rs[i].reserva_id = rs[j].reserva_id /\ rs[i].servicio_id = rs[j].servicio_id) => i = j

\* whether create of d runs the statement falla names: every check that
\* precedes it in Reserva.create passes in the current state
AlcanzaCreate(falla, d) ==
  LET libre == ~OtraActiva(reservas, 0, d)
      hastaSalon == libre /\ ~Falta(salones, d.salon_id)
      hastaTurno == hastaSalon /\ ~Falta(usuarios, d.usuario_id) /\ ~Falta(turnos, d.turno_id)
  IN CASE falla \in {"conexion", "check"} -> TRUE
       [] falla = "buscar_salon" -> libre
       [] falla = "buscar_usuario" -> hastaSalon
       [] falla = "buscar_turno" -> hastaSalon /\ ~Falta(usuarios, d.usuario_id)
       [] falla = "insert" -> hastaTurno
       [] falla = "buscar_servicio" -> hastaTurno /\ d.servicios # << >>
       [] falla \in {"join", "total"} ->
            hastaTurno /\ d.servicios # << >> /\ PrimerServicioQueFalta(d.servicios) = 0
       [] falla = "hydrate" -> hastaTurno /\ PrimerServicioQueFalta(d.servicios) = 0
       [] OTHER -> FALSE

\* the same for an update of reservation id with data d
AlcanzaUpdate(falla, id, d) ==
  falla = "buscar_reserva" \/
  (id \in DOMAIN reservas /\
   LET self == reservas[id]
       cambia == ~SameSlot(NuevoSlot(self, d), self)
       libre == ~(cambia /\ OtraActiva(reservas, id, NuevoSlot(self, d)))
       hastaSalon == libre /\ (d.has.salon_id => ~Falta(salones, d.salon_id))
       hastaTurno == hastaSalon /\ (d.has.turno_id => ~Falta(turnos, d.turno_id))
   IN CASE falla = "conexion" -> TRUE
        [] falla = "check" -> cambia
        [] falla = "buscar_salon" -> libre /\ d.has.salon_id
        [] falla = "buscar_turno" -> hastaSalon /\ d.has.turno_id
        [] falla = "buscar_servicio" -> hastaTurno /\ d.has.servicios /\ d.servicios # << >>
        [] falla = "join" ->
             hastaTurno /\ d.has.servicios /\ d.servicios # << >>
               /\ PrimerServicioQueFalta(d.servicios) = 0
        [] falla \in {"update", "hydrate"} ->
             hastaTurno /\ PrimerServicioQueFalta(d.servicios) = 0
        [] OTHER -> FALSE)

\* the same for a restore of reservation id
AlcanzaRestore(falla, id) ==
  falla = "buscar_reserva" \/
  (id \in DOMAIN reservas /\ ~reservas[id].activo /\
   CASE falla = "check" -> TRUE
     [] falla \in {"update", "conexion", "hydrate"} -> ~OtraActiva(reservas, id, reservas[id])
     [] OTHER -> FALSE)

\* C27: a create, update or restore in which a lookup or a write fails in
\* the storage is answered 500 or 503, never 400 or 404, and leaves
\* reservas and reservas_servicios as they were (a restore whose UPDATE ran
\* and whose final read failed leaves the whole restore, nothing partial);
\* the same create without a failure, one reference missing or inactive, is
\* answered 400.
C27_FallaDeAlmacenamiento ==
  [][ /\ \A body \in AltasAlmacen, falla \in FallasAlmacenCreate :
           (/\ last'.op = "create" /\ last'.req = body
            /\ AlcanzaCreate(falla, body)
            /\ Create(1, ADMINISTRADOR, body, falla)) =>
             (last'.status \in {500, 503} /\ reservas' = reservas /\ rs' = rs)
      /\ \A id \in 1..MaxReservas, body \in CambiosAlmacen, falla \in FallasAlmacenUpdate :
           (/\ last'.op = "update" /\ last'.id = id /\ last'.req = body
            /\ AlcanzaUpdate(falla, id, body)
            /\ Update(ADMINISTRADOR, id, body, falla, FALSE)) =>
             (last'.status \in {500, 503} /\ reservas' = reservas /\ rs' = rs)
      /\ \A id \in 1..MaxReservas, falla \in FallasAlmacenRestore :
           (/\ last'.op = "restore" /\ last'.id = id
            /\ AlcanzaRestore(falla, id)
            /\ RestoreCon(ADMINISTRADOR, id, falla)) =>
             /\ last'.status \in {500, 503}
             /\ rs' = rs
             /\ \/ reservas' = reservas
                \/ falla = "hydrate" /\ reservas' = [reservas EXCEPT ![id].activo = TRUE]
      /\ \A body \in AltasAlmacen :
           (/\ last'.op = "create" /\ last'.req = body
            /\ ~OtraActiva(reservas, 0, body)
            /\ ReferenciaQueFalta(body) # ""
            /\ Create(1, ADMINISTRADOR, body, "ninguna")) =>
             (last'.status = 400 /\ reservas' = reservas /\ rs' = rs)
    ]_vars

\* a create that names the inactive salon 3 on a free slot is answered 500:
\* the availability query or the salon lookup failed
C27_Witness ==
  /\ last.op = "create" /\ last.status = 500 /\ last.error = "storage"
  /\ last.req.salon_id = 3
  /\ ~OtraActiva(reservas, 0, last.req)

\* C28 (as claimed; refuted under SpecFecha): no reservation is inserted
\* with a date earlier than the day of its insertion.
C28_FechaAlInsertar ==
  [][ \A i \in DOMAIN reservas' \ DOMAIN reservas : reservas'[i].fecha_reserva >= hoy ]_vars

\* the sum of decimal amounts with 2 decimal places, digit by digit
RECURSIVE SumaDecimal(_, _)
SumaDecimal(lista, acumulado) ==
  IF lista = << >> THEN acumulado
  ELSE LET c == acumulado.centavos + Head(lista).centavos
       IN SumaDecimal(Tail(lista),
            [entero |-> acumulado.entero + Head(lista).entero + c \div 100,
             centavos |-> c % 100])

\* C29 (as claimed; refuted under SpecDecimal): the total computed for a
\* salon price and service amounts is their exact decimal sum, the number
\* that sum's text denotes, untouched by binary rounding.
C29_TotalExacto ==
  last.op = "importe_total" =>
    last.data[1] = ParseFloat(SumaDecimal(last.req.servicios, last.req.importe_salon))

\* C30 (as claimed; refuted under SpecCatalogo): every active reservation
\* names a salon, a turno and a user that are active.
C30_ReferenciasActivas ==
  \A i \in DOMAIN reservas :
    reservas[i].activo =>
      /\ ~Falta(salones, reservas[i].salon_id)
      /\ ~Falta(turnos, reservas[i].turno_id)
      /\ ~Falta(usuarios, reservas[i].usuario_id)

TokenDe(p) == p[1].token

\* C33 (as claimed; refuted under SpecSesion): once a user has been
\* soft-deleted, every later request carrying that user's token is
\* answered 401.
C33_RechazadoDesdeLaBaja ==
  (procs # << >> /\ TokenDe(procs) \in Bajas(procs)) => last.status = 401

\* C33 (amended): a request is answered by its token's user as that user
\* is when the request arrives.  With no active row for the user the
\* answer is 401 and no table changes (no handler ran); with an active row
\* the answer is never 401, also after a soft delete followed by a restore.
C33_ActivoAlPedir ==
  [][ \A uid \in Tokens :
        (procs' # << >> /\ TokenDe(procs') = uid) =>
          IF uid \in DOMAIN usuarios /\ usuarios[uid].activo
            THEN last'.status # 401
            ELSE /\ last'.status = 401 /\ last'.error = "token"
                 /\ UNCHANGED <<reservas, rs, nextId, catalogo>> ]_vars

\* C33 witness: the employee's token is refused with 401 on a create while
\* the employee is soft-deleted
C33_Witness ==
  /\ procs # << >> /\ TokenDe(procs) = 4 /\ ~usuarios[4].activo
  /\ last.op = "create" /\ last.status = 401

\* C34 (as claimed; refuted under SpecTurnos): no two active turnos have
\* the same orden, after any sequence of Turno create, update, softDelete
\* and restore.
C34_OrdenUnico ==
  \A a, b \in DOMAIN turnos :
    (a # b /\ turnos[a].activo /\ turnos[b].activo) => turnos[a].orden # turnos[b].orden

\* C35: for turnos with hora_desde < hora_hasta and a candidate interval
\* with desde < hasta, checkTimeOverlap answers true exactly when some
\* active turno other than the excluded one has hora_desde < hasta and
\* desde < hora_hasta.
C35_InterseccionDeIntervalos ==
  last.op = "checkTimeOverlap" =>
    (last.data[1] <=>
       \E i \in DOMAIN turnos :
         /\ turnos[i].activo /\ i # last.id
         /\ turnos[i].hora_desde < last.req.hora_hasta
         /\ last.req.hora_desde < turnos[i].hora_hasta)

\* C35 witness: the candidate strictly contains the only active turno
\* (neither of its ends lies inside the turno) and the answer is true
C35_Witness ==
  /\ last.op = "checkTimeOverlap" /\ last.data[1] /\ last.id = 0
  /\ turnos[1].activo /\ ~turnos[2].activo
  /\ last.req.hora_desde < turnos[1].hora_desde
  /\ turnos[1].hora_hasta < last.req.hora_hasta

\* C36 (as claimed; refuted under SpecServicios): no two active services
\* have the same description once trimmed and lower-cased, after any
\* sequence of Servicio create, update, softDelete and restore.
C36_DescripcionUnica ==
  \A a, b \in DOMAIN servicios :
    (a # b /\ servicios[a].activo /\ servicios[b].activo) =>
      Lower(Trim(servicios[a].descripcion)) # Lower(Trim(servicios[b].descripcion))

\* how many times the call e was made on the connection
Veces(eventos, e) == Cardinality({i \in DOMAIN eventos : eventos[i] = e})

\* C37 (as claimed; refuted under SpecTransaccion): a transaction that has
\* run to its end saw exactly one of commit and rollback, the commit only
\* with every statement done, and its connection was released exactly once.
C37_UnFinalUnaLiberacion ==
  (procs # << >> /\ procs[1].pc = "fin") =>
    LET t == procs[1] IN
      /\ Veces(t.eventos, "commit") + Veces(t.eventos, "rollback") = 1
      /\ Veces(t.eventos, "commit") = 1 => t.pendientes = 0
      /\ Veces(t.eventos, "release") = 1

====
